---- MODULE Spec2Model ----
(***************************************************************************)
(* A model of the chunked data store of PG-Strom (src/src/datastore.c):    *)
(* one pgstrom_data_store handle, the kern_data_store header it wraps, the *)
(* front region of the buffer (row index and hash slots, 4-byte words) and *)
(* the payload region (kern_tupitem / kern_hashitem objects that grow from *)
(* the back of the buffer).                                                *)
(***************************************************************************)
EXTENDS Integers, Sequences, FiniteSets, TLC

VARIABLES cassert, pstate, refcnt, kds, words, mem, ub,
          log, nretain, nrelease, nfree, heldAtFree, last, xs, built,
          scan_slot, gss, tasks, gts, trans, inflight, tally, cb_log, touched

storeVars == <<pstate, refcnt, kds, words, mem>>
ghostVars == <<log, nretain, nrelease, nfree, heldAtFree, xs, built>>
\* the scan that uses the store: its state, its tasks, the task state with
\* the two task collections, the transaction, the callbacks the driver has
\* yet to deliver, and what is recorded of the tasks and the callbacks
pipeVars == <<gss, tasks, gts, trans, inflight, tally, cb_log, touched>>
scanVars == <<scan_slot, pipeVars>>
vars == <<cassert, pstate, refcnt, kds, words, mem, ub,
          log, nretain, nrelease, nfree, heldAtFree, last, xs, built,
          scanVars>>

(***************************************************************************)
(* Bounds of the model.                                                    *)
(***************************************************************************)
\* records a chunk is grown to by successful inserts
MaxItems == 3
\* retain calls made on one store
MaxRef == 2
\* columns of the record descriptors a Slot chunk is created for
MaxCols == 3
\* tasks one scan creates
MaxTasks == 2
\* times the reservation of device memory fails for one task
MaxRetry == 1

(***************************************************************************)
(* Program constants.                                                      *)
(***************************************************************************)
BLCKSZ == 8192
SizeofUint == 4
SizeofDatum == 8
MaxAlign == 8
INT_MAX == 2147483647
\* offsetof(kern_tupitem, htup): cl_ushort t_len + ItemPointerData t_self
OffsetofTupitemHtup == 8
\* offsetof(kern_hashitem, t): hash, next, rowid, padding
OffsetofHashitemT == 16
\* offsetof(kern_hashitem, t.htup)
OffsetofHashitemHtup == 24
\* the value PDS_insert_hashitem leaves in khitem->next
NextUnlinked == 2139062143
\* offsetof(kern_data_store, colmeta) and sizeof(kern_colmeta)
KdsColmetaOffset == 96
SizeofColmeta == 24
\* the smallest bucket table __KDS_NSLOTS gives
MinSlots == 128
\* columns of the record descriptor used throughout
NCols == 2
\* offsetof(HeapTupleHeaderData, t_bits), sizeof(Oid) and sizeof(cl_long)
OffsetofTBits == 23
SizeofOid == 4
SizeofLong == 8

KDS_FORMAT_ROW == "ROW"
KDS_FORMAT_SLOT == "SLOT"
KDS_FORMAT_HASH == "HASH"
KDS_FORMAT_BLOCK == "BLOCK"

Max(a, b) == IF a >= b THEN a ELSE b

(***************************************************************************)
(* Alignment and the length arithmetic of the chunk layout.                *)
(***************************************************************************)
STROMALIGN(x) == ((x + MaxAlign - 1) \div MaxAlign) * MaxAlign
\* a rounding to the boundary above
StromalignDownUp(x) == ((x + MaxAlign - 1) \div MaxAlign) * MaxAlign

STROMALIGN_DOWN(x) == (x \div MaxAlign) * MaxAlign
LONGALIGN(x) == ((x + SizeofDatum - 1) \div SizeofDatum) * SizeofDatum
MAXALIGN(x) == ((x + MaxAlign - 1) \div MaxAlign) * MaxAlign
TYPEALIGN(alignval, x) == ((x + alignval - 1) \div alignval) * alignval

KDS_CALCULATE_HEAD_LENGTH(ncols) ==
    STROMALIGN(KdsColmetaOffset + SizeofColmeta * ncols)

\* bucket table size for nitems records: a quarter more than nitems, and
\* MinSlots at least
KDS_NSLOTS(nitems) == Max(MinSlots, (nitems * 5) \div 4)

KDS_CALCULATE_ROW_FRONTLEN(ncols, nitems) ==
    KDS_CALCULATE_HEAD_LENGTH(ncols) + STROMALIGN(SizeofUint * nitems)

KDS_CALCULATE_ROW_LENGTH(ncols, nitems, data_len) ==
    KDS_CALCULATE_ROW_FRONTLEN(ncols, nitems) + STROMALIGN(data_len)

KDS_CALCULATE_HASH_FRONTLEN(ncols, nitems) ==
    KDS_CALCULATE_HEAD_LENGTH(ncols) + STROMALIGN(SizeofUint * nitems)
        + STROMALIGN(SizeofUint * KDS_NSLOTS(nitems))

KDS_CALCULATE_HASH_LENGTH(ncols, nitems, data_len) ==
    KDS_CALCULATE_HASH_FRONTLEN(ncols, nitems) + STROMALIGN(data_len)

\* length_for(format, record_count, bytes_used)
LengthFor(format, ncols, nitems, data_len) ==
    IF format = KDS_FORMAT_HASH
    THEN KDS_CALCULATE_HASH_LENGTH(ncols, nitems, data_len)
    ELSE KDS_CALCULATE_ROW_LENGTH(ncols, nitems, data_len)

FrontLen(format, ncols, nitems) ==
    IF format = KDS_FORMAT_HASH
    THEN KDS_CALCULATE_HASH_FRONTLEN(ncols, nitems)
    ELSE KDS_CALCULATE_ROW_FRONTLEN(ncols, nitems)

(***************************************************************************)
(* The buffer.  words: the 4-byte words of the front region that hold a    *)
(* non-zero value, by byte offset from the head of the kern_data_store.    *)
(* mem: the payload objects, by the byte offset they start at; size is the *)
(* extent the object occupies.  Writing over a word or an object destroys  *)
(* it.                                                                     *)
(***************************************************************************)
EmptyMap == [x \in {} |-> 0]

GarbageItem ==
    [size |-> 0, hash |-> 0, next |-> 0, rowid |-> 0,
     t_len |-> 0, t_self |-> 0, htup |-> 0]

Rd(w, o) == IF o \in DOMAIN w THEN w[o] ELSE 0

ZeroRange(w, lo, hi) ==
    LET keep == {o \in DOMAIN w : ~(o + SizeofUint > lo /\ o < hi)}
    IN  [o \in keep |-> w[o]]

DropItems(m, lo, hi) ==
    LET keep == {p \in DOMAIN m : ~(p < hi /\ lo < p + m[p].size)}
    IN  [p \in keep |-> m[p]]

\* a store of one 4-byte word at byte offset o
WrWord(w, o, v) ==
    LET w1 == ZeroRange(w, o, o + SizeofUint)
    IN  IF v = 0 THEN w1
        ELSE [x \in DOMAIN w1 \cup {o} |-> IF x = o THEN v ELSE w1[x]]

\* a store of one object at byte offset s
PutItem(m, s, rec) ==
    LET m1 == DropItems(m, s, s + rec.size)
    IN  [x \in DOMAIN m1 \cup {s} |-> IF x = s THEN rec ELSE m1[x]]

ItemAt(m, p) == IF p \in DOMAIN m THEN m[p] ELSE GarbageItem

\* head address of the data body, the row index and the hash slots
KERN_DATA_STORE_BODY(k) == KDS_CALCULATE_HEAD_LENGTH(k.ncols)

KERN_DATA_STORE_ROWINDEX(k, i) == KERN_DATA_STORE_BODY(k) + SizeofUint * i

KERN_DATA_STORE_HASHSLOT(k, j) ==
    KERN_DATA_STORE_BODY(k) + STROMALIGN(SizeofUint * k.nitems) + SizeofUint * j

RowIndex(k, w, i) == Rd(w, KERN_DATA_STORE_ROWINDEX(k, i))

HashSlot(k, w, j) == Rd(w, KERN_DATA_STORE_HASHSLOT(k, j))

\* the object a row-index entry refers to: the entry holds the address of
\* t_len, which in a kern_hashitem lies OffsetofHashitemT behind its start
ItemKey(k, off) ==
    IF k.format = KDS_FORMAT_HASH THEN off - OffsetofHashitemT ELSE off

KERN_DATA_STORE_TUPITEM(k, w, m, i) == ItemAt(m, ItemKey(k, RowIndex(k, w, i)))

TupleOf(item) == [t_len |-> item.t_len, t_self |-> item.t_self, htup |-> item.htup]

(***************************************************************************)
(* Inputs.                                                                 *)
(***************************************************************************)
\* the tuples handed to the insert operations: length, item pointer, bytes
TupA == [t_len |-> 64, t_self |-> 1, htup |-> 1]
TupB == [t_len |-> 28, t_self |-> 2, htup |-> 2]
Tuples == {TupA, TupB}

\* size hints of PDS_create_row: less than any head length, a chunk for
\* exactly three TupA, and a chunk that takes one storage page
RowHints == {4, 379, 8900}

\* size hints of PDS_create_hash: less than the head length, the head
\* length alone, and a chunk for exactly three TupA
HashHints == {100, 147, 939}

\* the records handed to PDS_insert_hashitem: two of them share a bucket
HashInputs ==
    { [tuple |-> TupA, hash |-> 5], [tuple |-> TupB, hash |-> 133],
      [tuple |-> TupA, hash |-> 6] }

\* the columns of record descriptors: attlen, the width
\* typealign_get_width gives for attalign, attbyval, and whether atttypid
\* is NUMERICOID; a smallint, a bigint, a text and a numeric
Int2Col == [attlen |-> 2, attalign |-> 2, attbyval |-> TRUE, numeric |-> FALSE]
Int8Col == [attlen |-> 8, attalign |-> 8, attbyval |-> TRUE, numeric |-> FALSE]
TextCol == [attlen |-> 0 - 1, attalign |-> 4, attbyval |-> FALSE, numeric |-> FALSE]
NumericCol == [attlen |-> 0 - 1, attalign |-> 4, attbyval |-> FALSE, numeric |-> TRUE]
Columns == {Int2Col, Int8Col, TextCol, NumericCol}

\* the record descriptors PDS_create_slot is called with: with object ids
\* and without, of one column to MaxCols columns
TupDescs ==
    {[tdhasoid |-> o, attrs |-> a] :
        o \in BOOLEAN, a \in UNION {[1..n -> Columns] : n \in 1..MaxCols}}

\* the record descriptor used throughout
TupDesc == [tdhasoid |-> FALSE, attrs |-> <<Int8Col, Int8Col>>]

\* rooms of PDS_create_slot: none, and two rows
SlotRooms == {0, 2}

\* bytes of the extra area of PDS_create_slot, and the bytes of it a device
\* kernel has used for values of variable length
SlotExtras == {0, 64}

\* length hints of PDS_expand_size on Slot and Block chunks: less than the
\* length of any chunk, and more
SlotExpandHints == {100, 8600}

\* size hints of PDS_create_block: less than one block, one block, and one
\* block from a hint that is not on the alignment boundary
BlockHints == {8300, 8400, 8403}

\* the rows a device kernel leaves in a Slot chunk: the values of the
\* columns and their null flags
DevRows ==
    << [values |-> <<7, 0>>, isnull |-> <<FALSE, TRUE>>],
       [values |-> <<8, 9>>, isnull |-> <<FALSE, FALSE>>] >>

\* row indexes handed to pgstrom_fetch_data_store
FetchIndexes == 0..2

\* length hints of PDS_expand_size
ExpandHints == {8600, 17100}

\* storage pages handed to PDS_insert_block: the line pointers in offset
\* order (normal or not, visible to the snapshot or not) and the
\* all-visible flag of the page
Line(normal, visible, len, self) ==
    [normal |-> normal, visible |-> visible,
     tuple |-> [t_len |-> len, t_self |-> self, htup |-> self]]

PageA ==
    [all_visible |-> FALSE,
     lines |-> << Line(TRUE, TRUE, 64, 11), Line(TRUE, FALSE, 28, 12),
                  Line(FALSE, FALSE, 0, 13), Line(TRUE, TRUE, 28, 14) >>]

PageB == [all_visible |-> TRUE, lines |-> << Line(TRUE, TRUE, 64, 21) >>]

Pages == {PageA, PageB}

\* the tuple table slot before a tuple is stored in it
EmptySlot == [kind |-> "empty"]

Result(op, res, n) == [op |-> op, res |-> res, n |-> n]

NoKds ==
    [length |-> 0, usage |-> 0, ncols |-> 0, nitems |-> 0, nrooms |-> 0,
     format |-> "NONE", nslots |-> 0]

NoXs == [phase |-> "none", recs |-> <<>>, length |-> 0]

\* error codes of a kernel and statuses of the driver
StromError_Success == "StromError_Success"
StromError_CpuReCheck == "StromError_CpuReCheck"
StromError_DataStoreNoSpace == "StromError_DataStoreNoSpace"
CUDA_SUCCESS == "CUDA_SUCCESS"
CUDA_ERROR_INVALID_CONTEXT == "CUDA_ERROR_INVALID_CONTEXT"
StromKernel_CudaRuntime == "StromKernel_CudaRuntime"

NoError == [errcode |-> StromError_Success, kernel |-> "none", lineno |-> 0]

\* what a kernel leaves in kern.kerror when it stops with an error
KernelError(errcode) ==
    IF errcode = StromError_Success THEN NoError
    ELSE [errcode |-> errcode, kernel |-> "StromKernel_gpuscan", lineno |-> 77]

TaskIds == 1..MaxTasks

\* a pgstrom_data_store with its buffer, and the absent one (NULL)
Chunk(k) ==
    [pstate |-> "live", refcnt |-> 1, kds |-> k,
     words |-> EmptyMap, mem |-> EmptyMap]

NoChunk ==
    [pstate |-> "none", refcnt |-> 0, kds |-> NoKds,
     words |-> EmptyMap, mem |-> EmptyMap]

\* the kern_resultbuf of a task
NoResults ==
    [nrels |-> 0, nrooms |-> 0, nitems |-> 0, all_visible |-> FALSE,
     results |-> <<>>]

\* a task that is not created yet
NoTask ==
    [state |-> "none", pds_src |-> NoChunk, pds_dst |-> NoChunk,
     kresults |-> NoResults, kern_kerror |-> NoError, kerror |-> NoError,
     cpu_fallback |-> FALSE, m_gpuscan |-> 0, m_kds_src |-> 0,
     m_kds_dst |-> 0, events |-> 0, chain |-> "unlinked"]

\* the GpuScanState before gpuscan_begin
NoScan ==
    [begun |-> FALSE, rs_cblock |-> 0, dev_quals |-> FALSE,
     dev_projection |-> FALSE,
     base_proj |-> FALSE, be_row_format |-> FALSE, pfm_enabled |-> FALSE,
     cpu_fallback_enabled |-> FALSE]

\* the GpuTaskState: the lock, the collections of running and of completed
\* tasks, their counters, the task being read with the read position, the
\* latch of the backend and whether the backend sleeps on it; unlocked
\* records a list change made without the lock, signal_locked a signal to
\* the latch made with the lock held
NoTaskState ==
    [lock |-> FALSE, running_tasks |-> <<>>, completed_tasks |-> <<>>,
     num_running_tasks |-> 0, num_completed_tasks |-> 0,
     curr_task |-> 0, curr_index |-> 0, latch |-> FALSE, waiting |-> FALSE,
     unlocked |-> FALSE, signal_locked |-> FALSE]

\* what is recorded of one task: device memory reserved and freed, event
\* handles created and destroyed, pushes to the completed collection and
\* removals from the running collection, failed reservations, the commands
\* put on the stream, the tuples of the source chunk and the rows returned,
\* the address and the length of the device memory last reserved
NoTally ==
    [mem_alloc |-> 0, mem_free |-> 0, ev_create |-> 0, ev_destroy |-> 0,
     pushed |-> 0, removed |-> 0, retries |-> 0, cmds |-> <<>>,
     source |-> <<>>, emitted |-> <<>>, m_base |-> 0, m_length |-> 0]

Init ==
    /\ cassert \in BOOLEAN
    /\ pstate = "none"
    /\ refcnt = 0
    /\ kds = NoKds
    /\ words = EmptyMap
    /\ mem = EmptyMap
    /\ ub = "none"
    /\ log = <<>>
    /\ nretain = 0
    /\ nrelease = 0
    /\ nfree = 0
    /\ heldAtFree = 0
    /\ last = Result("init", "OK", 0)
    /\ xs = NoXs
    /\ built = FALSE
    /\ scan_slot = EmptySlot
    /\ gss = NoScan
    /\ tasks = [t \in TaskIds |-> NoTask]
    /\ gts = NoTaskState
    /\ trans = "inprogress"
    /\ inflight = {}
    /\ tally = [t \in TaskIds |-> NoTally]
    /\ cb_log = <<>>
    /\ touched = {}

\* the operation changes nothing but its result
Returns(op, res) ==
    /\ last' = Result(op, res, 0)
    /\ UNCHANGED <<scanVars, cassert, storeVars, ub, ghostVars>>

\* the operation has no defined outcome: the run ends here
Undefined(op, what) ==
    /\ ub' = what
    /\ last' = Result(op, "UB", 0)
    /\ UNCHANGED <<scanVars, cassert, storeVars, ghostVars>>

Called == pstate # "none" /\ ub = "none"

(***************************************************************************)
(* init_kernel_data_store and the create operations.                       *)
(***************************************************************************)
init_kernel_data_store(length, format, nrooms) ==
    [length |-> length, usage |-> 0, ncols |-> NCols, nitems |-> 0,
     nrooms |-> nrooms, format |-> format, nslots |-> 0]

\* the loop of init_kernel_data_store over the columns from column i on:
\* attcacheoff is the offset the columns before have led to, -1 when there
\* is no shortcut any more
RECURSIVE ColmetaFrom(_, _, _, _)
ColmetaFrom(attrs, use_internal, attcacheoff, i) ==
    IF i > Len(attrs) THEN <<>>
    ELSE LET attr == attrs[i]
             internal == attr.numeric /\ use_internal
             attbyval == IF internal THEN TRUE ELSE attr.attbyval
             attlen == IF internal THEN SizeofLong ELSE attr.attlen
             off == IF attcacheoff > 0
                    THEN IF attlen > 0
                         THEN TYPEALIGN(attr.attalign, attcacheoff)
                         ELSE 0 - 1
                    ELSE attcacheoff
         IN  << [attbyval |-> attbyval, attalign |-> attr.attalign,
                 attlen |-> attlen, attcacheoff |-> off] >>
             \o ColmetaFrom(attrs, use_internal,
                            IF off >= 0 THEN off + attr.attlen ELSE off,
                            i + 1)

\* the offset of the first column: the tuple header, with the object id
\* when the record has one
HeaderOffset(tupdesc) ==
    MAXALIGN(OffsetofTBits + IF tupdesc.tdhasoid THEN SizeofOid ELSE 0)

\* kds->colmeta as init_kernel_data_store leaves it
Colmeta(tupdesc, use_internal) ==
    ColmetaFrom(tupdesc.attrs, use_internal, HeaderOffset(tupdesc), 1)

\* the header written by init_kernel_data_store does not fit the buffer
HeadOverrun(k) == KDS_CALCULATE_HEAD_LENGTH(k.ncols) > k.length

Created(op, k) ==
    /\ pstate' = "live"
    /\ refcnt' = 1
    /\ kds' = k
    /\ words' = EmptyMap
    /\ mem' = EmptyMap
    /\ ub' = IF HeadOverrun(k) THEN "overrun" ELSE "none"
    /\ last' = Result(op, IF HeadOverrun(k) THEN "UB" ELSE "OK", 0)
    /\ UNCHANGED <<scanVars, cassert, ghostVars>>

PDS_create_row(length) ==
    /\ pstate = "none"
    /\ Created("create_row",
               init_kernel_data_store(STROMALIGN_DOWN(length),
                                      KDS_FORMAT_ROW, INT_MAX))

PDS_create_hash(length) ==
    /\ pstate = "none"
    /\ IF KDS_CALCULATE_HEAD_LENGTH(NCols) > STROMALIGN_DOWN(length)
       THEN Returns("create_hash", "ERROR")
       ELSE Created("create_hash",
                    init_kernel_data_store(STROMALIGN_DOWN(length),
                                           KDS_FORMAT_HASH, INT_MAX))

\* bytes of one row of a Slot chunk: a Datum and a null flag per column
SlotRowWidth(ncols) == LONGALIGN((SizeofDatum + 1) * ncols)

\* the header of a new Slot chunk
SlotKds(nrooms, extra_length) ==
    init_kernel_data_store(
        KDS_CALCULATE_HEAD_LENGTH(NCols)
            + STROMALIGN(SlotRowWidth(NCols) * nrooms)
            + STROMALIGN(extra_length),
        KDS_FORMAT_SLOT, nrooms)

PDS_create_slot(tupdesc, nrooms, extra_length, use_internal) ==
    /\ pstate = "none"
    /\ LET natts == Len(tupdesc.attrs)
           kds_length == KDS_CALCULATE_HEAD_LENGTH(natts)
                             + STROMALIGN(SlotRowWidth(natts) * nrooms)
                             + STROMALIGN(extra_length)
       IN  Created("create_slot",
                   [length |-> kds_length, usage |-> 0, ncols |-> natts,
                    nitems |-> 0, nrooms |-> nrooms,
                    format |-> KDS_FORMAT_SLOT, nslots |-> 0,
                    colmeta |-> Colmeta(tupdesc, use_internal)])

\* whether n blocks with their block numbers fit a chunk of this length
BlocksFit(length, n) ==
    ~(KDS_CALCULATE_HEAD_LENGTH(NCols) + STROMALIGN(SizeofUint * n)
          + BLCKSZ * n > length)

\* the loop that lowers nrooms until the blocks fit
RECURSIVE BlockRooms(_, _)
BlockRooms(length, n) ==
    IF BlocksFit(length, n) THEN n ELSE BlockRooms(length, n - 1)

PDS_create_block(length) ==
    /\ pstate = "none"
    /\ LET kds_length == STROMALIGN_DOWN(length)
           head == KDS_CALCULATE_HEAD_LENGTH(NCols)
       IN  IF head > kds_length
           THEN Returns("create_block", "ERROR")
           ELSE LET nrooms == BlockRooms(kds_length,
                                 (kds_length - head) \div (SizeofUint + BLCKSZ))
                IN  IF nrooms < 1
                    THEN Returns("create_block", "ERROR")
                    ELSE Created("create_block",
                                 init_kernel_data_store(kds_length,
                                     KDS_FORMAT_BLOCK, nrooms))

(***************************************************************************)
(* PDS_retain and PDS_release.                                             *)
(***************************************************************************)
\* an assertion that lets a count of zero pass
RefcntHeldLoose(r) == r >= 0

\* Assert(pds->refcnt > 0)
RefcntHeld(r) == r > 0

PDS_retain ==
    /\ Called
    /\ nretain < MaxRef
    /\ IF ~RefcntHeld(refcnt)
       THEN IF cassert THEN Returns("retain", "ASSERT")
            ELSE Undefined("retain", "use_after_free")
       ELSE /\ refcnt' = refcnt + 1
            /\ nretain' = nretain + 1
            /\ last' = Result("retain", "OK", 0)
            /\ UNCHANGED <<scanVars, cassert, pstate, kds, words, mem, ub,
                           log, nrelease, nfree, heldAtFree, xs, built>>

\* the reference count PDS_release leaves, and whether it frees the buffer
ReleaseCount(r) == r - 1

\* a release that frees the buffer one reference early
ReleaseFreesEarly(r) == ReleaseCount(r) <= 1

ReleaseFrees(r) == ReleaseCount(r) = 0

PDS_release ==
    /\ Called
    /\ IF ~RefcntHeld(refcnt)
       THEN IF cassert THEN Returns("release", "ASSERT")
            ELSE Undefined("release", "use_after_free")
       ELSE /\ refcnt' = ReleaseCount(refcnt)
            /\ nrelease' = nrelease + 1
            /\ IF ReleaseFrees(refcnt)
               THEN /\ pstate' = "freed"
                    /\ nfree' = nfree + 1
                    /\ heldAtFree' = Max(heldAtFree, ReleaseCount(refcnt))
               ELSE UNCHANGED <<pstate, nfree, heldAtFree>>
            /\ last' = Result("release", "OK", 0)
            /\ UNCHANGED <<scanVars, cassert, kds, words, mem, ub, log, nretain, xs,
                           built>>

(***************************************************************************)
(* kern_fetch_data_store, for the row format.                              *)
(***************************************************************************)
\* a range check that lets the index one behind the last record pass
FetchOutOfRangeLoose(k, row_index) == row_index > k.nitems

\* the range check of kern_fetch_data_store
FetchOutOfRange(k, row_index) == row_index >= k.nitems

\* a format test that reads a Hash chunk as a Row chunk
FetchesAsRowOrHash(k) == k.format \in {KDS_FORMAT_ROW, KDS_FORMAT_HASH}

\* the test for the branch that stores a view of a kern_tupitem
FetchesAsRow(k) == k.format = KDS_FORMAT_ROW

\* the values and null flags of one row of a Slot chunk
KERN_DATA_STORE_VALUES(k, row_index) ==
    KERN_DATA_STORE_BODY(k) + SlotRowWidth(k.ncols) * row_index

GarbageRow == [values |-> <<0, 0>>, isnull |-> <<FALSE, FALSE>>]

SlotRowAt(k, m, row_index) ==
    LET p == KERN_DATA_STORE_VALUES(k, row_index)
    IN  IF p \in DOMAIN m
        THEN [values |-> m[p].values, isnull |-> m[p].isnull]
        ELSE GarbageRow

kern_fetch_data_store(k, w, m, row_index) ==
    IF FetchOutOfRange(k, row_index)
    THEN [res |-> "FALSE", tuple |-> TupleOf(GarbageItem)]
    ELSE IF FetchesAsRow(k)
    THEN [res |-> "TRUE",
          tuple |-> TupleOf(KERN_DATA_STORE_TUPITEM(k, w, m, row_index))]
    ELSE IF k.format = KDS_FORMAT_SLOT
    THEN [res |-> "TRUE", tuple |-> SlotRowAt(k, m, row_index)]
    ELSE [res |-> "ERROR", tuple |-> TupleOf(GarbageItem)]

\* the slot after kern_fetch_data_store: a heap tuple that points into the
\* chunk, or a virtual tuple of copied values
StoredSlot(k, r) ==
    [kind |-> IF k.format = KDS_FORMAT_SLOT THEN "virtual" ELSE "tuple",
     tuple |-> r.tuple]

pgstrom_fetch_data_store(row_index) ==
    /\ Called
    /\ IF pstate = "freed"
       THEN Undefined("fetch", "use_after_free")
       ELSE LET r == kern_fetch_data_store(kds, words, mem, row_index)
            IN  /\ scan_slot' = IF r.res = "TRUE" THEN StoredSlot(kds, r)
                                ELSE scan_slot
                /\ last' = Result("fetch", r.res, row_index)
                /\ UNCHANGED <<pipeVars, cassert, storeVars, ub, ghostVars>>

(***************************************************************************)
(* The rows a device kernel has written to a Slot chunk, as they arrive    *)
(* with the copy of the chunk from the device.                             *)
(***************************************************************************)
RECURSIVE PutRows(_, _, _, _)
PutRows(k, m, rows, i) ==
    IF i > Len(rows) THEN m
    ELSE PutRows(k,
                 PutItem(m, KERN_DATA_STORE_VALUES(k, i - 1),
                         [size |-> SlotRowWidth(k.ncols),
                          values |-> rows[i].values,
                          isnull |-> rows[i].isnull]),
                 rows, i + 1)

\* the bytes of the head and of the rows of a Slot chunk
KERN_DATA_STORE_SLOT_LENGTH(k, nitems) ==
    KDS_CALCULATE_HEAD_LENGTH(k.ncols) + SlotRowWidth(k.ncols) * nitems

\* the rows, and the bytes of the extra area the kernel has used
DeviceStoresSlot(rows, used) ==
    /\ Called
    /\ pstate = "live"
    /\ kds.format = KDS_FORMAT_SLOT
    /\ kds.nitems = 0
    /\ Len(rows) <= kds.nrooms
    /\ KERN_DATA_STORE_SLOT_LENGTH(kds, kds.nrooms) + used <= kds.length
    /\ kds' = [kds EXCEPT !.nitems = Len(rows), !.usage = used]
    /\ mem' = PutRows(kds, mem, rows, 1)
    /\ last' = Result("device_store", "OK", Len(rows))
    /\ UNCHANGED <<scanVars, cassert, pstate, refcnt, words, ub, ghostVars>>

(***************************************************************************)
(* PDS_insert_tuple.                                                       *)
(***************************************************************************)
\* bytes a tuple takes in the payload of a row chunk
RowRequired(t) == LONGALIGN(OffsetofTupitemHtup + t.t_len)

\* a room check that forgets the bytes already used
RowHasRoomNoUsage(k, t) ==
    ~(KDS_CALCULATE_ROW_LENGTH(k.ncols, k.nitems + 1, RowRequired(t)) > k.length)

\* the room check of PDS_insert_tuple
RowHasRoom(k, t) ==
    ~(KDS_CALCULATE_ROW_LENGTH(k.ncols, k.nitems + 1,
                               RowRequired(t) + k.usage) > k.length)

\* the place taken before the usage is advanced by the new item
RowItemOffsetStale(k, t) == k.length - k.usage

\* where PDS_insert_tuple puts the kern_tupitem
RowItemOffset(k, t) == k.length - (k.usage + RowRequired(t))

RowItem(t) ==
    [size |-> RowRequired(t), hash |-> 0, next |-> 0, rowid |-> 0,
     t_len |-> t.t_len, t_self |-> t.t_self, htup |-> t.htup]

\* the buffer after one kern_tupitem and its index entry are written
PutTuple(k, w, m, off, item) ==
    LET idx == KERN_DATA_STORE_ROWINDEX(k, k.nitems)
        m1 == PutItem(m, off, item)
        w1 == ZeroRange(w, off, off + item.size)
    IN  [words |-> WrWord(w1, idx, off),
         mem |-> DropItems(m1, idx, idx + SizeofUint),
         over |-> off + item.size > k.length \/ idx + SizeofUint > k.length]

PDS_insert_tuple(t) ==
    /\ Called
    /\ IF pstate = "freed"
       THEN Undefined("insert_tuple", "use_after_free")
       ELSE IF kds.nitems >= kds.nrooms
       THEN Returns("insert_tuple", "FALSE")
       ELSE IF kds.format # KDS_FORMAT_ROW
       THEN Returns("insert_tuple", "ERROR")
       ELSE IF ~RowHasRoom(kds, t)
       THEN Returns("insert_tuple", "FALSE")
       ELSE LET off == RowItemOffset(kds, t)
                buf == PutTuple(kds, words, mem, off, RowItem(t))
            IN  /\ kds.nitems < MaxItems
                /\ kds' = [kds EXCEPT !.usage = @ + RowRequired(t),
                                      !.nitems = @ + 1]
                /\ words' = buf.words
                /\ mem' = buf.mem
                /\ ub' = IF buf.over THEN "overrun" ELSE "none"
                /\ log' = Append(log, t)
                /\ xs' = NoXs
                /\ last' = Result("insert_tuple", "TRUE", 0)
                /\ UNCHANGED <<scanVars, cassert, pstate, refcnt, built,
                               nretain, nrelease, nfree, heldAtFree>>

(***************************************************************************)
(* PDS_insert_hashitem.                                                    *)
(***************************************************************************)
HashRequired(t) == MAXALIGN(OffsetofHashitemHtup + t.t_len)

\* the room check of PDS_insert_hashitem
HashHasRoom(k, t) ==
    ~(KDS_CALCULATE_HASH_LENGTH(k.ncols, k.nitems + 1,
                                HashRequired(t) + k.usage) > k.length)

\* an item whose chain pointer is cleared when it is put
HashItemCleared(k, t, hash_value) ==
    [size |-> HashRequired(t), hash |-> hash_value, next |-> 0,
     rowid |-> k.nitems, t_len |-> t.t_len, t_self |-> t.t_self,
     htup |-> t.htup]

HashItem(k, t, hash_value) ==
    [size |-> HashRequired(t), hash |-> hash_value, next |-> NextUnlinked,
     rowid |-> k.nitems, t_len |-> t.t_len, t_self |-> t.t_self,
     htup |-> t.htup]

\* the buffer after one kern_hashitem and its index entry are written
PutHashItem(k, w, m, off, item) ==
    LET idx == KERN_DATA_STORE_ROWINDEX(k, item.rowid)
        m1 == PutItem(m, off, item)
        w1 == ZeroRange(w, off, off + item.size)
    IN  [words |-> WrWord(w1, idx, off + OffsetofHashitemT),
         mem |-> DropItems(m1, idx, idx + SizeofUint),
         over |-> off + item.size > k.length \/ idx + SizeofUint > k.length]

PDS_insert_hashitem(t, hash_value) ==
    /\ Called
    /\ IF pstate = "freed"
       THEN Undefined("insert_hashitem", "use_after_free")
       ELSE IF kds.nitems >= kds.nrooms
       THEN Returns("insert_hashitem", "FALSE")
       ELSE IF kds.format # KDS_FORMAT_HASH
       THEN Returns("insert_hashitem", "ERROR")
       ELSE IF ~HashHasRoom(kds, t)
       THEN Returns("insert_hashitem", "FALSE")
       ELSE LET off == kds.length - (kds.usage + HashRequired(t))
                buf == PutHashItem(kds, words, mem, off,
                                   HashItem(kds, t, hash_value))
            IN  /\ kds.nitems < MaxItems
                /\ kds' = [kds EXCEPT !.usage = @ + HashRequired(t),
                                      !.nitems = @ + 1]
                /\ words' = buf.words
                /\ mem' = buf.mem
                /\ ub' = IF buf.over THEN "overrun" ELSE "none"
                /\ log' = Append(log, t)
                /\ xs' = NoXs
                /\ last' = Result("insert_hashitem", "TRUE", 0)
                /\ UNCHANGED <<scanVars, cassert, pstate, refcnt, built,
                               nretain, nrelease, nfree, heldAtFree>>

(***************************************************************************)
(* PDS_build_hashtable.                                                    *)
(***************************************************************************)
\* a link that forgets the items already in the bucket
LinkNextNone(old_head) == 0

\* the chain pointer an item gets when it is linked into a bucket whose
\* head is old_head
LinkNext(old_head) == old_head

\* one round of the linking loop: item i goes to the head of its bucket.
\* st is the buffer so far; bad is set when the index entry leads to no
\* kern_hashitem of this row id
LinkItem(k, nslots, st, i) ==
    LET key == RowIndex(k, st.words, i) - OffsetofHashitemT
        item == ItemAt(st.mem, key)
        j == item.hash % nslots
        slot == KERN_DATA_STORE_HASHSLOT(k, j)
    IN  IF key \notin DOMAIN st.mem \/ item.rowid # i
        THEN [st EXCEPT !.bad = TRUE]
        ELSE [words |-> WrWord(st.words, slot, key),
              mem |-> DropItems([st.mem EXCEPT ![key].next =
                                    LinkNext(Rd(st.words, slot))],
                                slot, slot + SizeofUint),
              bad |-> st.bad]

RECURSIVE LinkAll(_, _, _, _)
LinkAll(k, nslots, st, i) ==
    IF i >= k.nitems \/ st.bad THEN st
    ELSE LinkAll(k, nslots, LinkItem(k, nslots, st, i), i + 1)

\* memset(hash_slot, 0, sizeof(cl_uint) * nslots)
ClearSlots(k, nslots, w, m) ==
    LET lo == KERN_DATA_STORE_HASHSLOT(k, 0)
        hi == KERN_DATA_STORE_HASHSLOT(k, nslots)
    IN  [words |-> ZeroRange(w, lo, hi), mem |-> DropItems(m, lo, hi),
         bad |-> FALSE]

\* a check that takes the smallest table for no table
AlreadyBuiltLoose(k) == k.nslots > MinSlots

\* the check that the hash table is already built
AlreadyBuilt(k) == k.nslots > 0

PDS_build_hashtable ==
    /\ Called
    /\ IF pstate = "freed"
       THEN Undefined("build_hashtable", "use_after_free")
       ELSE IF kds.format # KDS_FORMAT_HASH
       THEN Returns("build_hashtable", "ERROR")
       ELSE IF AlreadyBuilt(kds)
       THEN Returns("build_hashtable", "ERROR")
       ELSE LET nslots == KDS_NSLOTS(kds.nitems)
                st == LinkAll(kds, nslots,
                              ClearSlots(kds, nslots, words, mem), 0)
                over == KERN_DATA_STORE_HASHSLOT(kds, nslots) > kds.length
            IN  /\ kds' = [kds EXCEPT !.nslots = nslots]
                /\ words' = st.words
                /\ mem' = st.mem
                /\ ub' = IF over THEN "overrun"
                         ELSE IF st.bad THEN "wild_pointer" ELSE "none"
                /\ xs' = NoXs
                /\ built' = TRUE
                /\ last' = Result("build_hashtable",
                                  IF over \/ st.bad THEN "UB" ELSE "OK", 0)
                /\ UNCHANGED <<scanVars, cassert, pstate, refcnt, log,
                               nretain, nrelease, nfree, heldAtFree>>

(***************************************************************************)
(* PDS_insert_block.                                                       *)
(***************************************************************************)
\* PageGetMaxOffsetNumber
MaxOffsetNumber(page) == Len(page.lines)

\* the worst-case room check of PDS_insert_block
BlockMaxConsume(k, page) ==
    KDS_CALCULATE_HASH_LENGTH(k.ncols, k.nitems + MaxOffsetNumber(page),
                              OffsetofTupitemHtup * MaxOffsetNumber(page)
                                  + BLCKSZ + k.usage)

\* a loop that skips the visibility check
LineIsPutAll(page, lp) == lp.normal

\* whether the loop of PDS_insert_block puts the tuple of this line
LineIsPut(page, lp) == lp.normal /\ (page.all_visible \/ lp.visible)

\* the loop over the line pointers: st holds usage, the tuples put so far
\* and the buffer
RECURSIVE PutLines(_, _, _, _)
PutLines(k, page, st, lineoff) ==
    IF lineoff > MaxOffsetNumber(page) THEN st
    ELSE LET lp == page.lines[lineoff]
         IN  IF ~LineIsPut(page, lp)
             THEN PutLines(k, page, st, lineoff + 1)
             ELSE LET usage == st.usage + RowRequired(lp.tuple)
                      off == k.length - usage
                      idx == KERN_DATA_STORE_ROWINDEX(k, k.nitems + Len(st.put))
                      m1 == PutItem(st.mem, off, RowItem(lp.tuple))
                      w1 == ZeroRange(st.words, off, off + RowRequired(lp.tuple))
                  IN  PutLines(k, page,
                               [usage |-> usage,
                                put |-> Append(st.put, lp.tuple),
                                words |-> WrWord(w1, idx, off),
                                mem |-> DropItems(m1, idx, idx + SizeofUint),
                                over |-> \/ st.over
                                         \/ usage > k.length
                                         \/ idx + SizeofUint > k.length],
                               lineoff + 1)

PDS_insert_block(page) ==
    /\ Called
    /\ IF pstate = "freed"
       THEN Undefined("insert_block", "use_after_free")
       ELSE IF ~(kds.format = KDS_FORMAT_ROW /\ kds.nslots = 0)
       THEN IF cassert THEN Returns("insert_block", "ASSERT")
            ELSE Undefined("insert_block", "contract")
       ELSE IF BlockMaxConsume(kds, page) > kds.length
       THEN /\ last' = Result("insert_block", "FULL", -1)
            /\ UNCHANGED <<scanVars, cassert, storeVars, ub, ghostVars>>
       ELSE LET st == PutLines(kds, page,
                               [usage |-> kds.usage, put |-> <<>>,
                                words |-> words, mem |-> mem,
                                over |-> FALSE], 1)
                ntup == Len(st.put)
            IN  /\ kds.nitems + ntup <= MaxItems
                /\ kds' = [kds EXCEPT !.usage = st.usage,
                                      !.nitems = @ + ntup]
                /\ words' = st.words
                /\ mem' = st.mem
                /\ ub' = IF st.over THEN "overrun" ELSE "none"
                /\ log' = log \o st.put
                /\ xs' = NoXs
                /\ last' = Result("insert_block", "OK", ntup)
                /\ UNCHANGED <<scanVars, cassert, pstate, refcnt, built,
                               nretain, nrelease, nfree, heldAtFree>>

(***************************************************************************)
(* PDS_expand_size.                                                        *)
(***************************************************************************)
\* the bytes [lo, hi) of the old buffer copied to the same place of a new
\* buffer
CopyItemsUnmoved(m, lo, hi, delta) ==
    [q \in {p \in DOMAIN m : lo <= p /\ p < hi} |-> m[q]]

\* the bytes [lo, hi) of the old buffer copied to the same place plus
\* delta of a new buffer
CopyItems(m, lo, hi, delta) ==
    LET src == {p \in DOMAIN m : lo <= p /\ p < hi}
    IN  [q \in {p + delta : p \in src} |-> m[q - delta]]

\* an index entry carried over as it was
ExpandIndexUnshifted(old, shift) == old

\* the value an index entry gets in the new buffer
ExpandIndex(old, shift) == old + shift

\* a test that finds no Slot chunk with bytes used in its extra area
SlotHasExtraNever(k) == FALSE

\* the Slot chunk has values in its extra area
SlotHasExtra(k) == k.usage > 0

RECURSIVE ExpandRowIndex(_, _, _, _, _)
ExpandRowIndex(k, w_old, w_new, shift, i) ==
    IF i >= k.nitems THEN w_new
    ELSE ExpandRowIndex(k, w_old,
                        WrWord(w_new, KERN_DATA_STORE_ROWINDEX(k, i),
                               ExpandIndex(RowIndex(k, w_old, i), shift)),
                        shift, i + 1)

\* the records of the chunk in index order
Records(k, w, m) ==
    [i \in 1..k.nitems |-> TupleOf(KERN_DATA_STORE_TUPITEM(k, w, m, i - 1))]

PDS_expand_size(kds_length_hint) ==
    /\ Called
    /\ IF pstate = "freed"
       THEN Undefined("expand_size", "use_after_free")
       ELSE IF ~(kds.format \in {KDS_FORMAT_ROW, KDS_FORMAT_HASH}
                 /\ kds.nslots = 0)
       THEN IF cassert THEN Returns("expand_size", "ASSERT")
            ELSE IF kds.format \in {KDS_FORMAT_ROW, KDS_FORMAT_HASH}
            THEN Undefined("expand_size", "contract")
            ELSE IF kds.length >= STROMALIGN_DOWN(kds_length_hint)
            THEN Returns("expand_size", "SAME")
            ELSE IF kds.format # KDS_FORMAT_SLOT
            THEN Returns("expand_size", "ERROR")
            ELSE IF SlotHasExtra(kds)
            THEN Returns("expand_size", "ERROR")
            ELSE IF KERN_DATA_STORE_BODY(kds)
                        + KERN_DATA_STORE_SLOT_LENGTH(kds, kds.nitems)
                    > kds.length
            THEN Undefined("expand_size", "overrun")
            ELSE /\ kds' = [kds EXCEPT
                              !.length = STROMALIGN_DOWN(kds_length_hint)]
                 /\ heldAtFree' = Max(heldAtFree, refcnt - 1)
                 /\ xs' = NoXs
                 /\ last' = Result("expand_size", "OK", 0)
                 /\ UNCHANGED <<scanVars, cassert, pstate, refcnt, words,
                                mem, ub, log, nretain, nrelease, nfree, built>>
       ELSE LET kds_length_new == STROMALIGN_DOWN(kds_length_hint)
                kds_length_old == kds.length
                shift == STROMALIGN_DOWN(kds_length_new - kds_length_old)
                offset == kds_length_old - kds.usage
            IN  IF kds.length >= kds_length_new
                THEN Returns("expand_size", "SAME")
                ELSE IF LengthFor(kds.format, kds.ncols, kds.nitems,
                                  kds.usage) >= kds_length_new
                THEN Returns("expand_size", "ERROR")
                ELSE /\ kds' = [kds EXCEPT !.length = kds_length_new]
                     /\ mem' = CopyItems(mem, offset, kds_length_old, shift)
                     /\ words' = ExpandRowIndex(kds, words, EmptyMap, shift, 0)
                     /\ heldAtFree' = Max(heldAtFree, refcnt - 1)
                     /\ xs' = [phase |-> "expanded",
                               recs |-> Records(kds, words, mem),
                               length |-> kds_length_old]
                     /\ last' = Result("expand_size", "OK", 0)
                     /\ UNCHANGED <<scanVars, cassert, pstate, refcnt, ub, log,
                                    nretain, nrelease, nfree, built>>

(***************************************************************************)
(* PDS_shrink_size.                                                        *)
(***************************************************************************)
\* memmove(baseptr, baseptr + shift, kds->length - shift): the objects of
\* [base + shift, base + length) go down by shift; whatever lay in the
\* destination [base, base + length - shift) is written over
MoveItems(m, base, length, shift) ==
    LET src == {p \in DOMAIN m : base + shift <= p /\ p < base + length}
        rest == DropItems([p \in DOMAIN m \ src |-> m[p]],
                          base, base + length - shift)
    IN  [q \in DOMAIN rest \cup {p - shift : p \in src} |->
            IF q + shift \in src THEN m[q + shift] ELSE rest[q]]

\* the reclaimable slack: the length minus the minimum required length,
\* aligned down
ShrinkShift(k) ==
    STROMALIGN_DOWN(k.length - LengthFor(k.format, k.ncols, k.nitems, k.usage))

\* a test that takes a slack of exactly one storage page for a small one
ShrinkSkippedAtPage(k) ==
    ShrinkShift(k) <= BLCKSZ \/ ShrinkShift(k) < SizeofDatum * k.nitems

\* small shift has less advantage than CPU cycle consumption
ShrinkSkipped(k) ==
    ShrinkShift(k) < BLCKSZ \/ ShrinkShift(k) < SizeofDatum * k.nitems

\* memmove(baseptr, baseptr + shift, kds->length - shift) writes the bytes
\* from baseptr to baseptr + length - shift: past the end of the buffer
\* when the front of the chunk is longer than the shift
MoveOverruns(k) == FrontLen(k.format, k.ncols, k.nitems) > ShrinkShift(k)

\* a round that lowers the index entry and links nothing
ShrinkItemUnlinked(k, nslots, shift, st, i) ==
    LET idx == KERN_DATA_STORE_ROWINDEX(k, i)
        old == RowIndex(k, st.words, i)
    IN  IF old < shift THEN [st EXCEPT !.bad = TRUE]
        ELSE [st EXCEPT !.words = WrWord(st.words, idx, old - shift),
                        !.mem = DropItems(st.mem, idx, idx + SizeofUint)]

\* one round of the adjusting loop: the index entry goes down by shift
\* and, when a hash table was built, the item is linked again
ShrinkItem(k, nslots, shift, st, i) ==
    LET idx == KERN_DATA_STORE_ROWINDEX(k, i)
        old == RowIndex(k, st.words, i)
        st1 == [st EXCEPT !.words = WrWord(st.words, idx, old - shift),
                          !.mem = DropItems(st.mem, idx, idx + SizeofUint)]
    IN  IF old < shift THEN [st EXCEPT !.bad = TRUE]
        ELSE IF nslots > 0 THEN LinkItem(k, nslots, st1, i)
        ELSE st1

RECURSIVE ShrinkAll(_, _, _, _, _)
ShrinkAll(k, nslots, shift, st, i) ==
    IF i >= k.nitems \/ st.bad THEN st
    ELSE ShrinkAll(k, nslots, shift, ShrinkItem(k, nslots, shift, st, i), i + 1)

\* the ghost of an expand followed by a shrink
AfterShrink(x) == IF x.phase = "expanded" THEN [x EXCEPT !.phase = "shrunk"]
                  ELSE NoXs

PDS_shrink_size ==
    /\ Called
    /\ IF pstate = "freed"
       THEN Undefined("shrink_size", "use_after_free")
       ELSE IF kds.format = KDS_FORMAT_SLOT
       THEN LET new_length == KERN_DATA_STORE_SLOT_LENGTH(kds, kds.nitems)
            IN  IF kds.usage > 0 THEN Returns("shrink_size", "ERROR")
                ELSE IF cassert /\ ~(new_length <= kds.length)
                THEN Returns("shrink_size", "ASSERT")
                ELSE /\ kds' = [kds EXCEPT !.length = new_length]
                     /\ xs' = NoXs
                     /\ last' = Result("shrink_size", "OK", 0)
                     /\ UNCHANGED <<scanVars, cassert, pstate, refcnt, words,
                                    mem, ub, log, nretain, nrelease, nfree,
                                    heldAtFree, built>>
       ELSE IF kds.format \notin {KDS_FORMAT_ROW, KDS_FORMAT_HASH}
       THEN Returns("shrink_size", "ERROR")
       ELSE IF kds.length < LengthFor(kds.format, kds.ncols, kds.nitems,
                                      kds.usage)
       THEN Undefined("shrink_size", "overrun")
       ELSE IF ShrinkSkipped(kds)
       THEN /\ xs' = AfterShrink(xs)
            /\ last' = Result("shrink_size", "SKIP", 0)
            /\ UNCHANGED <<scanVars, cassert, storeVars, ub, log,
                           nretain, nrelease, nfree, heldAtFree, built>>
       ELSE IF MoveOverruns(kds)
       THEN Undefined("shrink_size", "overrun")
       ELSE LET shift == ShrinkShift(kds)
                base == FrontLen(kds.format, kds.ncols, kds.nitems)
                m1 == MoveItems(mem, base, kds.length, shift)
                w1 == ZeroRange(words, base, base + kds.length - shift)
                st0 == IF kds.nslots > 0
                       THEN ClearSlots(kds, kds.nslots, w1, m1)
                       ELSE [words |-> w1, mem |-> m1, bad |-> FALSE]
                st == ShrinkAll(kds, kds.nslots, shift, st0, 0)
            IN  /\ kds' = [kds EXCEPT !.length = kds.length - shift]
                /\ words' = st.words
                /\ mem' = st.mem
                /\ ub' = IF st.bad THEN "wild_pointer" ELSE "none"
                /\ xs' = AfterShrink(xs)
                /\ last' = Result("shrink_size",
                                  IF st.bad THEN "UB" ELSE "OK", 0)
                /\ UNCHANGED <<scanVars, cassert, pstate, refcnt, log,
                               nretain, nrelease, nfree, heldAtFree, built>>

(***************************************************************************)
(* The scan of src/src/gpuscan.c.  A scan takes the store that             *)
(* pgstrom_exec_scan_chunk has filled as the source chunk of a new task,   *)
(* puts the commands of the task on a stream of the device, and reads the  *)
(* rows of the tasks the completion callback has queued.                   *)
(***************************************************************************)
\* the scans that are run: the filter on the device or none, a projection
\* on the device or none, heap tuples or slots for the executor, the
\* performance monitor on or off, and the setting
\* pgstrom_cpu_fallback_enabled that is in force while the scan runs
ScanConfigs ==
    { [dev_quals |-> TRUE, dev_projection |-> FALSE, be_row_format |-> TRUE,
       pfm_enabled |-> FALSE, cpu_fallback_enabled |-> TRUE],
      [dev_quals |-> TRUE, dev_projection |-> TRUE, be_row_format |-> FALSE,
       pfm_enabled |-> TRUE, cpu_fallback_enabled |-> TRUE],
      [dev_quals |-> FALSE, dev_projection |-> TRUE, be_row_format |-> FALSE,
       pfm_enabled |-> TRUE, cpu_fallback_enabled |-> TRUE],
      [dev_quals |-> TRUE, dev_projection |-> TRUE, be_row_format |-> FALSE,
       pfm_enabled |-> FALSE, cpu_fallback_enabled |-> FALSE] }

\* the blocks of the relation that is scanned, from block 0 on: a block of
\* three visible tuples, and a block of one
PageC ==
    [all_visible |-> TRUE,
     lines |-> << Line(TRUE, TRUE, 64, 31), Line(TRUE, TRUE, 28, 32),
                  Line(TRUE, TRUE, 64, 33) >>]

Relation == <<PageC, PageB>>

\* the block the scan starts at, and the block number of a scan that has
\* not started
rs_startblock == 0
InvalidBlockNumber == 0 - 1

\* the chunk size of pgstrom_chunk_size: room for one block
ChunkHints == {8900}

\* the filter of the scans, as ExecQual evaluates it on the tuple of a slot
ExecQual(tuple) == tuple.t_len >= 64

\* the projection of the scans, as ExecProject evaluates it
ExecProject(tuple) ==
    [values |-> <<tuple.t_self, tuple.t_len>>, isnull |-> <<FALSE, FALSE>>]

Range(s) == {s[i] : i \in DOMAIN s}

\* the backend runs: it does not sleep on its latch
Awake == ~gts.waiting

Remove(s, t) == SelectSeq(s, LAMBDA x : x # t)

(***************************************************************************)
(* The planner: gpuscan_add_scan_path and create_gpuscan_plan on a query   *)
(* of one base relation.                                                   *)
(***************************************************************************)
\* the columns of the relation of the query
RelationAttrs == <<"a", "b">>

RelationGetNumberOfAttributes == Len(RelationAttrs)

\* the attribute number of a whole-row reference
InvalidAttrNumber == 0

\* target entries and clauses: a column reference, and an expression over
\* columns that the device can or cannot evaluate
Var(varattno) ==
    [kind |-> "Var", varattno |-> varattno, device |-> FALSE,
     groupkey |-> FALSE, pseudoconstant |-> FALSE, vars |-> <<varattno>>]

Expr(device, pseudoconstant, varattnos) ==
    [kind |-> "Expr", varattno |-> InvalidAttrNumber, device |-> device,
     groupkey |-> FALSE, pseudoconstant |-> pseudoconstant,
     vars |-> varattnos]

pgstrom_device_expression(expr) == expr.kind = "Var" \/ expr.device

\* the queries: the target list, the restriction clauses, whether the
\* relation is the whole scan/join and under a grouping, and whether the
\* rows are asked for in the Row format
Query(tlist, clauses, be_row_format) ==
    [tlist |-> tlist, clauses |-> clauses, top_level |-> TRUE,
     have_grouping |-> FALSE, be_row_format |-> be_row_format]

Queries ==
    { Query(<<Var(1)>>, <<Expr(TRUE, FALSE, <<1>>)>>, TRUE),
      Query(<<Var(1), Var(2)>>, <<Expr(TRUE, FALSE, <<2>>)>>, FALSE),
      Query(<<Expr(TRUE, FALSE, <<1>>)>>, <<>>, FALSE),
      Query(<<Var(2), Var(1)>>, <<Expr(FALSE, FALSE, <<1>>)>>, FALSE),
      Query(<<Var(1)>>, <<>>, TRUE),
      Query(<<Expr(FALSE, FALSE, <<1>>)>>, <<Expr(FALSE, FALSE, <<2>>)>>, TRUE),
      Query(<<Expr(TRUE, FALSE, <<1>>), Var(InvalidAttrNumber)>>, <<>>, TRUE),
      Query(<<Expr(TRUE, FALSE, <<1>>), Var(InvalidAttrNumber)>>, <<>>, FALSE),
      Query(<<Var(1)>>, <<Expr(TRUE, TRUE, <<>>)>>, TRUE),
      Query(<<Var(1)>>, <<Expr(TRUE, TRUE, <<>>)>>, FALSE) }

\* whether a target entry is one the device projection pays for
cost_discount_gpu_projection(q) ==
    /\ q.top_level
    /\ \E i \in 1..Len(q.tlist) :
           /\ q.tlist[i].kind # "Var"
           /\ ~q.have_grouping \/ q.tlist[i].groupkey
           /\ pgstrom_device_expression(q.tlist[i])

\* whether gpuscan_add_scan_path adds a path for the query
gpuscan_add_scan_path(q) ==
    LET dev_quals == SelectSeq(q.clauses, pgstrom_device_expression)
    IN  ~(~cost_discount_gpu_projection(q) /\ dev_quals = <<>>)

\* the clauses without the pseudoconstant ones
extract_actual_clauses(clauses) ==
    SelectSeq(clauses, LAMBDA c : ~c.pseudoconstant)

RECURSIVE add_unique_expressions(_, _)
add_unique_expressions(exprs, tlist_dev) ==
    IF exprs = <<>> THEN tlist_dev
    ELSE add_unique_expressions(
             Tail(exprs),
             IF \E i \in 1..Len(tlist_dev) : tlist_dev[i] = Head(exprs)
             THEN tlist_dev ELSE Append(tlist_dev, Head(exprs)))

\* the column references of a list of expressions
RECURSIVE pull_vars_of_level(_)
pull_vars_of_level(exprs) ==
    IF exprs = <<>> THEN <<>>
    ELSE [i \in 1..Len(Head(exprs).vars) |-> Var(Head(exprs).vars[i])]
             \o pull_vars_of_level(Tail(exprs))

\* compatible_tlist: the entries are the columns of the relation at their
\* places, and attnum, which is one more than the length of the target
\* list after the loop, is the number of columns
CompatibleTlist(tlist) ==
    /\ \A i \in 1..Len(tlist) :
           /\ tlist[i].kind = "Var"
           /\ tlist[i].varattno = i
           /\ i <= RelationGetNumberOfAttributes
    /\ RelationGetNumberOfAttributes = Len(tlist) + 1

\* the device target list, or NIL (the empty list)
build_gpuscan_projection(tlist, host_quals, dev_quals) ==
    LET direct == SelectSeq(tlist, pgstrom_device_expression)
        others == SelectSeq(tlist, LAMBDA e : ~pgstrom_device_expression(e))
        junk == pull_vars_of_level(others) \o pull_vars_of_level(host_quals)
                    \o pull_vars_of_level(dev_quals)
        wholerow(exprs) ==
            \E i \in 1..Len(exprs) :
                exprs[i].kind = "Var" /\ exprs[i].varattno = InvalidAttrNumber
    IN  IF wholerow(direct) \/ wholerow(junk) THEN <<>>
        ELSE IF CompatibleTlist(tlist) THEN <<>>
        ELSE add_unique_expressions(direct \o junk, <<>>)

create_gpuscan_plan(q) ==
    LET host_quals == extract_actual_clauses(
                          SelectSeq(q.clauses,
                                    LAMBDA c : ~pgstrom_device_expression(c)))
        dev_quals == extract_actual_clauses(
                         SelectSeq(q.clauses, pgstrom_device_expression))
    IN  [dev_quals |-> dev_quals,
         custom_scan_tlist |-> build_gpuscan_projection(q.tlist, host_quals,
                                                        dev_quals),
         be_row_format |-> q.be_row_format]

\* the scan of a plan, as gpuscan_begin sets it up
PlannedScan(plan) ==
    [dev_quals |-> plan.dev_quals # <<>>,
     dev_projection |-> plan.custom_scan_tlist # <<>>,
     be_row_format |-> plan.be_row_format,
     pfm_enabled |-> FALSE, cpu_fallback_enabled |-> TRUE]

gpuscan_begin(cfg) ==
    /\ ub = "none"
    /\ ~gss.begun
    /\ gss' = [begun |-> TRUE, rs_cblock |-> InvalidBlockNumber,
               dev_quals |-> cfg.dev_quals,
               dev_projection |-> cfg.dev_projection,
               base_proj |-> cfg.dev_projection,
               be_row_format |-> cfg.be_row_format,
               pfm_enabled |-> cfg.pfm_enabled,
               cpu_fallback_enabled |-> cfg.cpu_fallback_enabled]
    /\ last' = Result("begin", "OK", 0)
    /\ UNCHANGED <<scan_slot, tasks, gts, trans, inflight, tally, cb_log,
                   touched, cassert, storeVars, ub, ghostVars>>

\* a task whose result buffer is never in the all-visible mode
TaskNeverAllVisible(g, pds_src) ==
    [NoTask EXCEPT !.state = "pending", !.pds_src = pds_src,
                   !.pds_dst = Chunk(SlotKds(pds_src.kds.nitems, 0)),
                   !.kresults = [NoResults EXCEPT !.nrels = 1]]

\* the task of a source chunk; proj_row_extra and proj_slot_extra are 0
create_pgstrom_gpuscan_task(g, pds_src) ==
    LET kds_src == pds_src.kds
        pds_dst ==
            IF g.be_row_format
            THEN IF ~g.dev_projection THEN NoChunk
                 ELSE Chunk(init_kernel_data_store(
                                STROMALIGN_DOWN(kds_src.length),
                                KDS_FORMAT_ROW, INT_MAX))
            ELSE Chunk(SlotKds(kds_src.nitems, 0))
    IN  [NoTask EXCEPT
           !.state = "pending",
           !.pds_src = pds_src,
           !.pds_dst = pds_dst,
           !.kresults = [nrels |-> 1,
                         nrooms |-> IF g.dev_quals THEN kds_src.nitems ELSE 0,
                         nitems |-> 0,
                         all_visible |-> ~g.dev_quals,
                         results |-> <<>>]]

FreeTasks == {t \in TaskIds : tasks[t].state = "none"}

\* the loop of pgstrom_exec_scan_chunk: the blocks from rs_cblock on are put
\* in the chunk until one does not fit or the scan is back at its start
RECURSIVE FillChunk(_, _)
FillChunk(c, rs_cblock) ==
    IF BlockMaxConsume(c.kds, Relation[rs_cblock + 1]) > c.kds.length
    THEN [c EXCEPT !.rs_cblock = rs_cblock]
    ELSE LET st == PutLines(c.kds, Relation[rs_cblock + 1],
                            [usage |-> c.kds.usage, put |-> <<>>,
                             words |-> c.words, mem |-> c.mem,
                             over |-> FALSE], 1)
             c1 == [kds |-> [c.kds EXCEPT !.usage = st.usage,
                                          !.nitems = @ + Len(st.put)],
                    words |-> st.words, mem |-> st.mem,
                    put |-> c.put \o st.put, over |-> c.over \/ st.over,
                    rs_cblock |-> IF rs_cblock + 1 >= Len(Relation) THEN 0
                                  ELSE rs_cblock + 1]
         IN  IF c1.rs_cblock = rs_startblock THEN c1
             ELSE FillChunk(c1, c1.rs_cblock)

\* the chunk of the next blocks of the relation, or none: the relation is
\* empty, the scan has gone around it, or no tuple was put in the chunk
pgstrom_exec_scan_chunk(rs_cblock, chunk_length) ==
    IF Len(Relation) = 0 \/ rs_cblock = rs_startblock
    THEN [pds |-> NoChunk, put |-> <<>>, over |-> FALSE,
          rs_cblock |-> rs_cblock]
    ELSE LET k == init_kernel_data_store(STROMALIGN_DOWN(chunk_length),
                                         KDS_FORMAT_ROW, INT_MAX)
             c == FillChunk([kds |-> k, words |-> EmptyMap, mem |-> EmptyMap,
                             put |-> <<>>, over |-> HeadOverrun(k),
                             rs_cblock |-> rs_startblock],
                            IF rs_cblock = InvalidBlockNumber
                            THEN rs_startblock ELSE rs_cblock)
         IN  [pds |-> IF c.kds.nitems = 0 THEN NoChunk
                      ELSE [Chunk(c.kds) EXCEPT !.words = c.words,
                                                !.mem = c.mem],
              put |-> c.put, over |-> c.over, rs_cblock |-> c.rs_cblock]

\* the next chunk of the relation becomes the source chunk of a new task
gpuscan_next_chunk(chunk_length) ==
    /\ ub = "none"
    /\ Awake
    /\ gss.begun
    /\ trans = "inprogress"
    /\ FreeTasks # {}
    /\ LET r == pgstrom_exec_scan_chunk(gss.rs_cblock, chunk_length)
           t == CHOOSE x \in FreeTasks : \A y \in FreeTasks : x <= y
       IN  /\ gss' = [gss EXCEPT !.rs_cblock = r.rs_cblock]
           /\ ub' = IF r.over THEN "overrun" ELSE ub
           /\ IF r.pds.pstate = "none"
              THEN /\ last' = Result("next_chunk", "NULL", 0)
                   /\ UNCHANGED <<tasks, tally>>
              ELSE /\ tasks' = [tasks EXCEPT
                                  ![t] = create_pgstrom_gpuscan_task(gss,
                                                                     r.pds)]
                   /\ tally' = [tally EXCEPT ![t].source = r.put]
                   /\ last' = Result("next_chunk", "TASK", t)
    /\ UNCHANGED <<scan_slot, gts, trans, inflight, cb_log, touched, cassert,
                   storeVars, ghostVars>>

(***************************************************************************)
(* gpuscan_cleanup_cuda_resources and pgstrom_complete_gpuscan.            *)
(***************************************************************************)
\* a cleanup that leaves the address of the freed device memory in the task
CleanedHandleKept(m) == m

\* the address of the device memory that the cleanup leaves in the task
CleanedHandle(m) == 0

\* CUDA_EVENT_DESTROY destroys the events that exist and clears the
\* handles; the device memory is freed when the task holds some
gpuscan_cleanup_cuda_resources(task, tl) ==
    [task |-> [task EXCEPT !.events = 0, !.m_gpuscan = CleanedHandle(@),
                           !.m_kds_src = 0, !.m_kds_dst = 0],
     tally |-> [tl EXCEPT
                  !.ev_destroy = @ + task.events,
                  !.mem_free = @ + IF task.m_gpuscan # 0 THEN 1 ELSE 0]]

pgstrom_complete_gpuscan(task, tl) == gpuscan_cleanup_cuda_resources(task, tl)

(***************************************************************************)
(* pgstrom_process_gpuscan: the commands of one task.                      *)
(***************************************************************************)
\* the events of one task
NumEvents == 5

\* CUDA_EVENT_RECORD puts the record of a timestamp on the stream when the
\* events of the task exist
CUDA_EVENT_RECORD(g, ev) == IF g.pfm_enabled THEN <<ev>> ELSE <<>>

\* a stream on which the callback is registered before the downloads
CommandsCallbackEarly(g, task) ==
    <<"upload_gpuscan", "upload_kds_src", "callback", "download_gpuscan">>

\* the commands __pgstrom_process_gpuscan puts on the stream of the task
Commands(g, task) ==
    LET dst == task.pds_dst.pstate # "none"
    IN  CUDA_EVENT_RECORD(g, "ev_dma_send_start")
        \o <<"upload_gpuscan", "upload_kds_src">>
        \o (IF dst THEN <<"upload_kds_dst">> ELSE <<>>)
        \o CUDA_EVENT_RECORD(g, "ev_dma_send_stop")
        \o (IF g.dev_quals THEN <<"exec_quals">> ELSE <<>>)
        \o CUDA_EVENT_RECORD(g, "ev_kern_exec_quals")
        \o (IF dst THEN <<"dev_proj">> ELSE <<>>)
        \o CUDA_EVENT_RECORD(g, "ev_dma_recv_start")
        \o <<"download_gpuscan">>
        \o (IF dst THEN <<"download_kds_dst">> ELSE <<>>)
        \o CUDA_EVENT_RECORD(g, "ev_dma_recv_stop")
        \o <<"callback">>

\* the call of the driver that fails in one run: none, the lookup of the
\* kernel functions, the reservation of device memory, the creation of
\* the events, or one of the commands
ProcessFailures ==
    {"none", "module", "alloc", "events", "upload_kds_src", "exec_quals",
     "download_gpuscan", "callback"}

\* the commands put on the stream before the one that fails
IssuedBefore(cmds, fail) ==
    IF fail \notin Range(cmds) THEN cmds
    ELSE SubSeq(cmds, 1, (CHOOSE i \in DOMAIN cmds : cmds[i] = fail) - 1)

\* a test that never takes the reservation for failed
OutOfResourceNever(m) == FALSE

\* the test of the address gpuMemAlloc returned
OutOfResource(m) == m = 0

\* device memory is reserved in units of this size
GPUMEMALIGN(x) == ((x + 1023) \div 1024) * 1024

\* the bytes of the kern_gpuscan of a task: its head with the parameters,
\* and the result buffer with its offsets
KERN_GPUSCAN_LENGTH(task) ==
    STROMALIGN(176) + STROMALIGN(24 + SizeofUint * task.kresults.nrooms)

\* a length that leaves the destination chunk out
AllocLengthNoDst(task) ==
    GPUMEMALIGN(KERN_GPUSCAN_LENGTH(task))
        + GPUMEMALIGN(STROMALIGN(task.pds_src.kds.length))

\* the bytes of device memory one task asks for
AllocLength(task) ==
    GPUMEMALIGN(KERN_GPUSCAN_LENGTH(task))
        + GPUMEMALIGN(STROMALIGN(task.pds_src.kds.length))
        + IF task.pds_dst.pstate # "none"
          THEN GPUMEMALIGN(STROMALIGN(task.pds_dst.kds.length)) ELSE 0

\* the device memory that is reserved and not freed, as the allocator has it
LiveAllocs ==
    {[base |-> tally[u].m_base, length |-> tally[u].m_length] :
        u \in {v \in TaskIds : tally[v].mem_alloc > tally[v].mem_free}}

\* the address the allocator gives: the lowest one at which the bytes asked
\* for meet no reserved memory
gpuMemAlloc(length) ==
    LET free(b) == \A a \in LiveAllocs :
                       b + length <= a.base \/ a.base + a.length <= b
        starts == {4096} \cup {a.base + a.length : a \in LiveAllocs}
    IN  CHOOSE b \in starts : free(b) /\ \A c \in starts : free(c) => b <= c

__pgstrom_process_gpuscan(g, task, tl, fail) ==
    IF fail = "module" THEN [res |-> "ERROR", task |-> task, tally |-> tl]
    ELSE LET length == AllocLength(task)
             m == IF fail = "alloc" THEN 0 ELSE gpuMemAlloc(length)
             m_kds_src == m + GPUMEMALIGN(KERN_GPUSCAN_LENGTH(task))
             t0 == [task EXCEPT !.m_gpuscan = m]
             t1 == [t0 EXCEPT
                      !.m_kds_src = m_kds_src,
                      !.m_kds_dst =
                          IF task.pds_dst.pstate # "none"
                          THEN m_kds_src + GPUMEMALIGN(STROMALIGN(
                                               task.pds_src.kds.length))
                          ELSE 0]
             l1 == IF m = 0 THEN [tl EXCEPT !.retries = @ + 1]
                   ELSE [tl EXCEPT !.mem_alloc = @ + 1, !.m_base = m,
                                   !.m_length = length]
         IN  IF OutOfResource(m)
             THEN LET c == gpuscan_cleanup_cuda_resources(t0, l1)
                  IN  [res |-> "FALSE", task |-> c.task, tally |-> c.tally]
             ELSE IF fail = "events"
             THEN [res |-> "ERROR", task |-> t1, tally |-> l1]
             ELSE LET nev == IF g.pfm_enabled THEN NumEvents ELSE 0
                      cmds == Commands(g, task)
                  IN  [res |-> IF fail \in Range(cmds) THEN "ERROR"
                               ELSE "TRUE",
                       task |-> [t1 EXCEPT !.events = nev],
                       tally |-> [l1 EXCEPT
                                    !.ev_create = @ + nev,
                                    !.cmds = @ \o IssuedBefore(cmds, fail)]]

\* the worker runs one task at a time: it attaches a task it has launched
\* before it takes the next one
pgstrom_process_gpuscan(t, fail) ==
    /\ ub = "none"
    /\ Awake
    /\ trans = "inprogress"
    /\ tasks[t].state = "pending"
    /\ \A u \in TaskIds : tasks[u].state # "launched"
    /\ fail \in {"none", "module", "alloc", "events"}
                    \cup Range(Commands(gss, tasks[t]))
    /\ fail = "alloc" => tally[t].retries < MaxRetry
    /\ LET r == __pgstrom_process_gpuscan(gss, tasks[t], tally[t], fail)
           c == IF r.res = "ERROR"
                THEN gpuscan_cleanup_cuda_resources(r.task, r.tally)
                ELSE [task |-> r.task, tally |-> r.tally]
       IN  /\ tasks' = [tasks EXCEPT
                          ![t] = [c.task EXCEPT
                                    !.state = IF r.res = "TRUE"
                                              THEN "launched" ELSE @]]
           /\ tally' = [tally EXCEPT ![t] = c.tally]
           /\ inflight' = IF r.res = "TRUE" THEN inflight \cup {t}
                          ELSE inflight
           /\ trans' = IF r.res = "ERROR" THEN "aborted" ELSE trans
           /\ last' = Result("process", r.res, t)
    /\ UNCHANGED <<scan_slot, gss, gts, cb_log, touched, cassert, storeVars,
                   ub, ghostVars>>

(***************************************************************************)
(* The lock of the task state and the two task collections.                *)
(***************************************************************************)
SpinLockAcquire(g) == [g EXCEPT !.lock = TRUE]

\* a release that leaves the lock held
SpinLockReleaseNever(g) == g

SpinLockRelease(g) == [g EXCEPT !.lock = FALSE]

\* a change of a collection; it is recorded when the lock is not held
ListChange(g) == [g EXCEPT !.unlocked = @ \/ ~g.lock]

dlist_push_tail(g, list, t) == [ListChange(g) EXCEPT ![list] = Append(@, t)]

dlist_push_head(g, list, t) == [ListChange(g) EXCEPT ![list] = <<t>> \o @]

\* the node leaves the collection it is linked in
dlist_delete(g, t) ==
    [ListChange(g) EXCEPT !.running_tasks = Remove(@, t),
                          !.completed_tasks = Remove(@, t)]

\* a test that takes every task for linked
ChainLinkedAlways(task) == TRUE

\* chain.prev && chain.next
ChainLinked(task) == task.chain # "unlinked"

\* the worker attaches the task it has launched to the running collection,
\* unless the callback has queued the task already
attach_running_task(t) ==
    /\ ub = "none"
    /\ Awake
    /\ trans = "inprogress"
    /\ tasks[t].state = "launched"
    /\ LET queued == tasks[t].chain # "unlinked"
           g1 == SpinLockAcquire(gts)
           g2 == IF queued THEN g1
                 ELSE [dlist_push_tail(g1, "running_tasks", t) EXCEPT
                         !.num_running_tasks = @ + 1]
       IN  /\ gts' = SpinLockRelease(g2)
           /\ tasks' = [tasks EXCEPT
                          ![t].state = "attached",
                          ![t].chain = IF queued THEN @ ELSE "running"]
    /\ last' = Result("attach", "OK", t)
    /\ UNCHANGED <<scan_slot, gss, trans, inflight, tally, cb_log, touched,
                   cassert, storeVars, ub, ghostVars>>

(***************************************************************************)
(* pgstrom_respond_gpuscan: the completion callback.                       *)
(***************************************************************************)
\* what the device reports for one task: the status of the stream, the
\* error code the kernels left, and how much of the result was written
DeviceReports ==
    { [status |-> CUDA_SUCCESS, errcode |-> StromError_Success,
       written |-> "all"],
      [status |-> CUDA_SUCCESS, errcode |-> StromError_CpuReCheck,
       written |-> "part"],
      [status |-> CUDA_SUCCESS, errcode |-> StromError_DataStoreNoSpace,
       written |-> "part"],
      [status |-> CUDA_SUCCESS, errcode |-> "StromError_DataStoreCorruption",
       written |-> "part"],
      [status |-> "CUDA_ERROR_LAUNCH_FAILED", errcode |-> StromError_Success,
       written |-> "none"],
      [status |-> CUDA_ERROR_INVALID_CONTEXT, errcode |-> StromError_Success,
       written |-> "none"] }

\* the indexes of the source rows the device has written a result for: the
\* rows that pass the filter, or the last row alone
DeviceSelects(g, src, written) ==
    LET n == src.kds.nitems
        all == SelectSeq([i \in 1..n |-> i - 1],
                         LAMBDA i : ~g.dev_quals \/ ExecQual(TupleOf(
                             KERN_DATA_STORE_TUPITEM(src.kds, src.words,
                                                     src.mem, i))))
    IN  IF written = "all" THEN all
        ELSE IF written = "part" THEN <<n - 1>>
        ELSE <<>>

\* the task after the two downloads: kern.kerror, and the rows of the
\* destination chunk or the offsets of the result buffer
DeviceWrites(g, task, dev) ==
    LET src == task.pds_src
        dst == task.pds_dst
        sel == DeviceSelects(g, src, dev.written)
        tup(j) == TupleOf(KERN_DATA_STORE_TUPITEM(src.kds, src.words,
                                                  src.mem, sel[j]))
        rows == [j \in 1..Len(sel) |-> ExecProject(tup(j))]
        t1 == [task EXCEPT !.kern_kerror = KernelError(dev.errcode)]
    IN  IF dev.written = "none" THEN task
        ELSE IF dst.pstate = "none" /\ ~g.dev_quals THEN task
        ELSE IF dst.pstate = "none"
        THEN [t1 EXCEPT
                !.kresults.nitems = Len(sel),
                !.kresults.results =
                    [j \in 1..Len(sel) |-> RowIndex(src.kds, src.words,
                                                    sel[j])]]
        ELSE IF dst.kds.format = KDS_FORMAT_SLOT
        THEN [t1 EXCEPT
                !.pds_dst.kds.nitems = Len(rows),
                !.pds_dst.mem = PutRows(dst.kds, dst.mem, rows, 1)]
        ELSE t1

\* the callback returns at once
RespondBailsOut(status) ==
    status = CUDA_ERROR_INVALID_CONTEXT \/ trans # "inprogress"

\* the error codes the host can recover from
Recoverable(errcode) ==
    errcode \in {StromError_CpuReCheck, StromError_DataStoreNoSpace}

\* a test that lets no task fall back
FallsBackNever(enabled, errcode) == FALSE

\* the test for the fallback to the host
FallsBack(enabled, errcode) == enabled /\ Recoverable(errcode)

\* the error code and the fallback flag the callback leaves in the task
Disposed(task, status, enabled) ==
    IF status = CUDA_SUCCESS
    THEN IF FallsBack(enabled, task.kern_kerror.errcode)
         THEN [task EXCEPT
                 !.kerror = [task.kern_kerror EXCEPT
                               !.errcode = StromError_Success],
                 !.cpu_fallback = TRUE]
         ELSE [task EXCEPT !.kerror = task.kern_kerror]
    ELSE [task EXCEPT
            !.kerror = [errcode |-> status,
                        kernel |-> StromKernel_CudaRuntime, lineno |-> 0]]

\* a queue that takes every task at its back
PushAtTailAlways(errcode) == TRUE

\* the test for the back of the completed collection
PushAtTail(errcode) == errcode = StromError_Success

\* a callback that does not signal the backend
SetLatchNever(g) == g

\* SetLatch(&MyProc->procLatch)
SetLatch(g) == [g EXCEPT !.latch = TRUE, !.signal_locked = @ \/ g.lock]

\* a callback that takes the task from the running collection and leaves
\* the count of the collection
RespondedUncounted(g, task, t) ==
    LET g1 == SpinLockAcquire(g)
        g2 == IF ChainLinked(task) THEN dlist_delete(g1, t) ELSE g1
        g3 == IF PushAtTail(task.kerror.errcode)
              THEN dlist_push_tail(g2, "completed_tasks", t)
              ELSE dlist_push_head(g2, "completed_tasks", t)
        g4 == SpinLockRelease([g3 EXCEPT !.num_completed_tasks = @ + 1])
    IN  SetLatch(g4)

\* the task state after the callback has moved the task
Responded(g, task, t) ==
    LET g1 == SpinLockAcquire(g)
        g2 == IF ChainLinked(task)
              THEN [dlist_delete(g1, t) EXCEPT !.num_running_tasks = @ - 1]
              ELSE g1
        g3 == IF PushAtTail(task.kerror.errcode)
              THEN dlist_push_tail(g2, "completed_tasks", t)
              ELSE dlist_push_head(g2, "completed_tasks", t)
        g4 == SpinLockRelease([g3 EXCEPT !.num_completed_tasks = @ + 1])
    IN  SetLatch(g4)

\* the fields the callback reads or writes when it runs to its end
RespondTouches ==
    {"task.gts", "task.kerror", "task.cpu_fallback", "task.chain",
     "gts.lock", "gts.num_running_tasks", "gts.completed_tasks",
     "gts.num_completed_tasks", "latch"}

\* the callback of the task: the status of the stream and what the device
\* has written.  The task is read before
\* the transaction is looked at: a task that is freed by then is read
\* after its release, and is written after its release when the callback
\* does not return at once
pgstrom_respond_gpuscan(t, dev) ==
    /\ ub = "none"
    /\ t \in inflight
    /\ inflight' = inflight \ {t}
    /\ IF RespondBailsOut(dev.status)
       THEN /\ touched' = {"task.gts"}
            /\ ub' \in IF tasks[t].state = "released"
                       THEN {"none", "use_after_free"} ELSE {"none"}
            /\ last' = Result("respond", "RETURN", t)
            /\ UNCHANGED <<tasks, gts, tally, cb_log>>
       ELSE IF tasks[t].state = "released"
       THEN /\ touched' = RespondTouches
            /\ ub' = "use_after_free"
            /\ last' = Result("respond", "UB", t)
            /\ UNCHANGED <<tasks, gts, tally, cb_log>>
       ELSE LET task == Disposed(DeviceWrites(gss, tasks[t], dev),
                                 dev.status,
                                 gss.cpu_fallback_enabled)
            IN  /\ tasks' = [tasks EXCEPT
                               ![t] = [task EXCEPT !.chain = "completed"]]
                /\ gts' = Responded(gts, task, t)
                /\ tally' = [tally EXCEPT
                               ![t].pushed = @ + 1,
                               ![t].removed =
                                   @ + IF ChainLinked(task) THEN 1 ELSE 0]
                /\ cb_log' = Append(cb_log,
                                    [task |-> t, status |-> dev.status,
                                     errcode |-> dev.errcode,
                                     queue |-> gts.completed_tasks])
                /\ touched' = RespondTouches
                /\ last' = Result("respond", "QUEUED", t)
                /\ ub' = ub
    /\ UNCHANGED <<scan_slot, gss, trans, cassert, storeVars, ghostVars>>

(***************************************************************************)
(* The consumer: the task it takes from the completed collection, and      *)
(* gpuscan_next_tuple on that task.                                        *)
(***************************************************************************)
\* the consumer takes the first completed task, completes it, and raises
\* the error of a task that has failed
pgstrom_fetch_gputask ==
    /\ ub = "none"
    /\ Awake
    /\ trans = "inprogress"
    /\ gts.curr_task = 0
    /\ \A u \in TaskIds : tasks[u].state # "launched"
    /\ gts.completed_tasks # <<>>
    /\ LET t == Head(gts.completed_tasks)
           g1 == SpinLockAcquire(gts)
           g2 == [dlist_delete(g1, t) EXCEPT !.num_completed_tasks = @ - 1]
           g3 == SpinLockRelease(g2)
           c == pgstrom_complete_gpuscan(tasks[t], tally[t])
           failed == c.task.kerror.errcode # StromError_Success
       IN  /\ tasks' = [tasks EXCEPT
                          ![t] = [c.task EXCEPT
                                    !.chain = "unlinked",
                                    !.state = IF failed THEN "failed"
                                              ELSE "current"]]
           /\ tally' = [tally EXCEPT ![t] = c.tally]
           /\ gts' = IF failed THEN g3
                     ELSE [g3 EXCEPT !.curr_task = t, !.curr_index = 0]
           /\ trans' = IF failed THEN "aborted" ELSE trans
           /\ last' = Result("fetch_task", IF failed THEN "ERROR" ELSE "TASK",
                             t)
    /\ UNCHANGED <<scan_slot, gss, inflight, cb_log, touched, cassert,
                   storeVars, ub, ghostVars>>

\* the backend has nothing to read and a task is on the device: it sleeps
\* on its latch, unless the latch is set, which it then resets
WaitLatch ==
    /\ ub = "none"
    /\ Awake
    /\ trans = "inprogress"
    /\ gts.curr_task = 0
    /\ gts.completed_tasks = <<>>
    /\ \E t \in TaskIds : tasks[t].state = "attached"
    /\ \A u \in TaskIds : tasks[u].state # "launched"
    /\ gts' = IF gts.latch THEN [gts EXCEPT !.latch = FALSE]
              ELSE [gts EXCEPT !.waiting = TRUE]
    /\ last' = Result("wait", IF gts.latch THEN "SET" ELSE "SLEEP", 0)
    /\ UNCHANGED <<scan_slot, gss, tasks, trans, inflight, tally, cb_log,
                   touched, cassert, storeVars, ub, ghostVars>>

\* the latch is set: the backend wakes and resets the latch
ResetLatch ==
    /\ ub = "none"
    /\ gts.waiting
    /\ gts.latch
    /\ gts' = [gts EXCEPT !.waiting = FALSE, !.latch = FALSE]
    /\ last' = Result("wake", "OK", 0)
    /\ UNCHANGED <<scan_slot, gss, tasks, trans, inflight, tally, cb_log,
                   touched, cassert, storeVars, ub, ghostVars>>

\* a filter step that lets every row pass
QualPassesAll(g, tuple) == TRUE

\* step 1 of the fallback: the filter, if the scan has one
QualPasses(g, tuple) == ~g.dev_quals \/ ExecQual(tuple)

\* the loop of the fallback over the source chunk, from curr_index on.
\* The projection of the scans is no set-returning one: is_done is never
\* ExprEndResult
RECURSIVE FallbackScan(_, _, _)
FallbackScan(g, src, curr_index) ==
    IF ~(curr_index < src.kds.nitems)
    THEN [index |-> curr_index, res |-> "NULL", slot |-> EmptySlot]
    ELSE LET r == kern_fetch_data_store(src.kds, src.words, src.mem,
                                        curr_index)
         IN  IF r.res # "TRUE"
             THEN [index |-> curr_index + 1, res |-> "ERROR",
                   slot |-> EmptySlot]
             ELSE IF ~QualPasses(g, r.tuple)
             THEN FallbackScan(g, src, curr_index + 1)
             ELSE [index |-> curr_index + 1, res |-> "TUPLE",
                   slot |-> IF g.base_proj
                            THEN [kind |-> "virtual",
                                  tuple |-> ExecProject(r.tuple)]
                            ELSE StoredSlot(src.kds, r)]

\* a cursor that passes over a row
NextIndexSkips(curr_index) == curr_index + 2

\* gss->gts.curr_index++
NextIndex(curr_index) == curr_index + 1

\* the next row of a task that has not fallen back: of the destination
\* chunk, or of the source chunk at the next offset of the result buffer
DeviceNext(task, curr_index) ==
    LET dst == task.pds_dst
        src == task.pds_src
    IN  IF dst.pstate # "none"
        THEN IF curr_index < dst.kds.nitems
             THEN LET r == kern_fetch_data_store(dst.kds, dst.words, dst.mem,
                                                 curr_index)
                  IN  IF r.res = "TRUE"
                      THEN [index |-> NextIndex(curr_index), res |-> "TUPLE",
                            slot |-> StoredSlot(dst.kds, r)]
                      ELSE [index |-> NextIndex(curr_index), res |-> "ERROR",
                            slot |-> EmptySlot]
             ELSE [index |-> curr_index, res |-> "NULL", slot |-> EmptySlot]
        ELSE IF task.kresults.all_visible /\ cassert
        THEN [index |-> curr_index, res |-> "ASSERT", slot |-> EmptySlot]
        ELSE IF curr_index < task.kresults.nitems
        THEN [index |-> NextIndex(curr_index), res |-> "TUPLE",
              slot |-> [kind |-> "tuple",
                        tuple |-> TupleOf(ItemAt(src.mem,
                                      task.kresults.results[curr_index + 1]))]]
        ELSE [index |-> curr_index, res |-> "NULL", slot |-> EmptySlot]

gpuscan_next_tuple ==
    /\ ub = "none"
    /\ Awake
    /\ trans = "inprogress"
    /\ gts.curr_task # 0
    /\ LET t == gts.curr_task
           r == IF ~tasks[t].cpu_fallback
                THEN DeviceNext(tasks[t], gts.curr_index)
                ELSE FallbackScan(gss, tasks[t].pds_src, gts.curr_index)
       IN  /\ gts' = [gts EXCEPT !.curr_index = r.index]
           /\ scan_slot' = IF r.res = "TUPLE" THEN r.slot ELSE scan_slot
           /\ tally' = [tally EXCEPT
                          ![t].emitted = IF r.res = "TUPLE"
                                         THEN Append(@, r.slot) ELSE @]
           /\ trans' = IF r.res \in {"ERROR", "ASSERT"} THEN "aborted"
                       ELSE trans
           /\ last' = Result("next_tuple", r.res, t)
    /\ UNCHANGED <<gss, tasks, inflight, cb_log, touched, cassert, storeVars,
                   ub, ghostVars>>

(***************************************************************************)
(* pgstrom_release_gpuscan, and the end of the transaction.                *)
(***************************************************************************)
\* a release that keeps the reference of the task to its chunk
ReleasedChunkKept(c) == c

\* PDS_release on a chunk of a task
ReleasedChunk(c) ==
    IF ~RefcntHeld(c.refcnt) THEN c
    ELSE IF ReleaseFrees(c.refcnt) THEN [NoChunk EXCEPT !.pstate = "freed"]
    ELSE [c EXCEPT !.refcnt = ReleaseCount(@)]

\* a release that keeps the reference to the destination chunk
ReleasedTaskSourceOnly(task, tl) ==
    LET c == pgstrom_complete_gpuscan(task, tl)
    IN  [task |-> [c.task EXCEPT
                     !.pds_src = IF @.pstate # "none"
                                 THEN ReleasedChunk(@) ELSE @,
                     !.state = "released"],
         tally |-> c.tally]

\* the task and what is recorded of it after cb_task_release
ReleasedTask(task, tl) ==
    LET c == pgstrom_complete_gpuscan(task, tl)
    IN  [task |-> [c.task EXCEPT
                     !.pds_src = IF @.pstate # "none"
                                 THEN ReleasedChunk(@) ELSE @,
                     !.pds_dst = IF @.pstate # "none"
                                 THEN ReleasedChunk(@) ELSE @,
                     !.state = "released"],
         tally |-> c.tally]

\* a task is released when the consumer has read its last row, and every
\* task is released when the transaction has ended
pgstrom_release_gpuscan(t) ==
    /\ ub = "none"
    /\ Awake
    /\ tasks[t].state \notin {"none", "released"}
    /\ \/ trans # "inprogress"
       \/ gts.curr_task = t /\ last = Result("next_tuple", "NULL", t)
    /\ LET r == ReleasedTask(tasks[t], tally[t])
       IN  /\ tasks' = [tasks EXCEPT ![t] = r.task]
           /\ tally' = [tally EXCEPT ![t] = r.tally]
    /\ gts' = IF gts.curr_task = t THEN [gts EXCEPT !.curr_task = 0] ELSE gts
    /\ last' = Result("release", "OK", t)
    /\ UNCHANGED <<scan_slot, gss, trans, inflight, cb_log, touched, cassert,
                   storeVars, ub, ghostVars>>

\* the tasks of the scan that are created and not released
Outstanding(ts) == {t \in TaskIds : ts[t].state \notin {"none", "released"}}

\* every task of the scan is taken from where it is and released, and the
\* collections are left empty
pgstrom_cleanup_gputaskstate(ts, tl, g) ==
    [tasks |-> [t \in TaskIds |->
                   IF t \in Outstanding(ts)
                   THEN [ReleasedTask(ts[t], tl[t]).task EXCEPT
                           !.chain = "unlinked"]
                   ELSE ts[t]],
     tally |-> [t \in TaskIds |->
                   IF t \in Outstanding(ts)
                   THEN ReleasedTask(ts[t], tl[t]).tally ELSE tl[t]],
     gts |-> [g EXCEPT !.running_tasks = <<>>, !.completed_tasks = <<>>,
                       !.num_running_tasks = 0, !.num_completed_tasks = 0,
                       !.curr_task = 0, !.curr_index = 0]]

\* the end of the scan: pgstrom_release_gputaskstate cleans the task state
gpuscan_end ==
    /\ ub = "none"
    /\ Awake
    /\ gss.begun
    /\ LET c == pgstrom_cleanup_gputaskstate(tasks, tally, gts)
       IN  /\ tasks' = c.tasks
           /\ tally' = c.tally
           /\ gts' = c.gts
    /\ gss' = [gss EXCEPT !.begun = FALSE]
    /\ last' = Result("end", "OK", 0)
    /\ UNCHANGED <<scan_slot, trans, inflight, cb_log, touched, cassert,
                   storeVars, ub, ghostVars>>

\* the scan starts again: the tasks are cleaned and the position of the
\* scan is rewound
gpuscan_rescan ==
    /\ ub = "none"
    /\ Awake
    /\ gss.begun
    /\ trans = "inprogress"
    /\ LET c == pgstrom_cleanup_gputaskstate(tasks, tally, gts)
       IN  /\ tasks' = c.tasks
           /\ tally' = c.tally
           /\ gts' = c.gts
    /\ gss' = [gss EXCEPT !.rs_cblock = InvalidBlockNumber]
    /\ last' = Result("rescan", "OK", 0)
    /\ UNCHANGED <<scan_slot, trans, inflight, cb_log, touched, cassert,
                   storeVars, ub, ghostVars>>

\* the transaction of the scan ends: an error elsewhere, or a cancel
AbortTransaction ==
    /\ ub = "none"
    /\ Awake
    /\ gss.begun
    /\ trans = "inprogress"
    /\ trans' = "aborted"
    /\ last' = Result("abort", "OK", 0)
    /\ UNCHANGED <<scan_slot, gss, tasks, gts, inflight, tally, cb_log,
                   touched, cassert, storeVars, ub, ghostVars>>

(***************************************************************************)
(* The store under every operation on its contents.                        *)
(***************************************************************************)
Next ==
    \/ \E length \in RowHints : PDS_create_row(length)
    \/ \E length \in HashHints : PDS_create_hash(length)
    \/ PDS_release
    \/ \E t \in Tuples : PDS_insert_tuple(t)
    \/ \E h \in HashInputs : PDS_insert_hashitem(h.tuple, h.hash)
    \/ PDS_build_hashtable
    \/ \E page \in Pages : PDS_insert_block(page)
    \/ \E length \in ExpandHints : PDS_expand_size(length)
    \/ PDS_shrink_size

Spec == Init /\ [][Next]_vars

(***************************************************************************)
(* The store from a Row chunk that is filled already, with up to twelve    *)
(* hundred records: PDS_shrink_size compares the slack with a storage page *)
(* and with sizeof(Datum) for each record, and the second takes more than  *)
(* a thousand records to be the larger.                                    *)
(***************************************************************************)
\* a Row chunk of this size hint after PDS_create_row and n calls of
\* PDS_insert_tuple with TupB: the i-th kern_tupitem ends where the one
\* before starts, the first at the end of the buffer, and the i-th index
\* entry holds its offset
Filled(length, n) ==
    LET k0 == init_kernel_data_store(STROMALIGN_DOWN(length),
                                     KDS_FORMAT_ROW, INT_MAX)
        req == RowRequired(TupB)
    IN  [kds |-> [k0 EXCEPT !.nitems = n, !.usage = req * n],
         words |-> [o \in {KERN_DATA_STORE_ROWINDEX(k0, i) : i \in 0..(n - 1)} |->
                       k0.length
                           - req * ((o - KERN_DATA_STORE_BODY(k0)) \div SizeofUint + 1)],
         mem |-> [p \in {k0.length - req * (i + 1) : i \in 0..(n - 1)} |->
                     RowItem(TupB)]]

\* a Hash chunk of this size hint after PDS_create_hash, n calls of
\* PDS_insert_hashitem with TupA and the hash values 5, 6, ... and
\* PDS_build_hashtable: every record is alone on the chain of its bucket
FilledHash(length, n) ==
    LET k0 == init_kernel_data_store(STROMALIGN_DOWN(length),
                                     KDS_FORMAT_HASH, INT_MAX)
        req == HashRequired(TupA)
        k1 == [k0 EXCEPT !.nitems = n, !.usage = req * n,
                         !.nslots = KDS_NSLOTS(n)]
        key(i) == k0.length - req * (i + 1)
        index == {KERN_DATA_STORE_ROWINDEX(k1, i) : i \in 0..(n - 1)}
        slots == {KERN_DATA_STORE_HASHSLOT(k1, (5 + i) % k1.nslots) :
                     i \in 0..(n - 1)}
    IN  [kds |-> k1,
         words |-> [o \in index \cup slots |->
                       IF o \in index
                       THEN key((o - KERN_DATA_STORE_ROWINDEX(k1, 0))
                                    \div SizeofUint) + OffsetofHashitemT
                       ELSE key(((o - KERN_DATA_STORE_HASHSLOT(k1, 0))
                                    \div SizeofUint + k1.nslots - 5)
                                    % k1.nslots)],
         mem |-> [p \in {key(i) : i \in 0..(n - 1)} |->
                     [HashItem([k0 EXCEPT !.nitems =
                                   (k0.length - p) \div req - 1],
                               TupA, 5 + (k0.length - p) \div req - 1)
                         EXCEPT !.next = 0]]]

\* the chunks a run starts from, by size hint and records: empty ones and
\* ones of a few records with a slack of less than a storage page and of
\* more, and ones of 1100 and of 1200 records with a slack of less than a
\* storage page, and of more than a storage page and less than
\* sizeof(Datum) for each record
FilledChunks ==
    { <<379, 0>>, <<8900, 0>>, <<8900, 1>>, <<8900, 2>>, <<8900, 3>>,
      <<8480, 2>>, <<8424, 2>>, <<8416, 2>>, <<17100, 3>>,
      <<56000, 1100>>, <<56744, 1100>>, <<57000, 1100>>, <<57300, 1100>>,
      <<60000, 1200>>, <<61136, 1200>>, <<61200, 1200>>, <<62536, 1200>> }

\* the Hash chunks with a built table a run starts from: ones of a few
\* records with a slack of less than a storage page and of more, and ones
\* of a thousand records with a slack of less than a storage page, and of
\* more than a storage page and less than the front of the chunk
FilledHashChunks ==
    { <<939, 2>>, <<8600, 1>>, <<9100, 2>>, <<17100, 2>>,
      <<105000, 1000>>, <<105336, 1000>>, <<105344, 1000>>, <<106000, 1000>> }

InitBulk ==
    /\ cassert \in BOOLEAN
    /\ \/ \E c \in FilledChunks :
             /\ kds = Filled(c[1], c[2]).kds
             /\ words = Filled(c[1], c[2]).words
             /\ mem = Filled(c[1], c[2]).mem
             /\ log = [i \in 1..c[2] |-> TupB]
             /\ built = FALSE
       \/ \E c \in FilledHashChunks :
             /\ kds = FilledHash(c[1], c[2]).kds
             /\ words = FilledHash(c[1], c[2]).words
             /\ mem = FilledHash(c[1], c[2]).mem
             /\ log = [i \in 1..c[2] |-> TupA]
             /\ built = TRUE
    /\ pstate = "live"
    /\ refcnt = 1
    /\ ub = "none"
    /\ nretain = 0
    /\ nrelease = 0
    /\ nfree = 0
    /\ heldAtFree = 0
    /\ last = Result("init", "OK", 0)
    /\ xs = NoXs
    /\ scan_slot = EmptySlot
    /\ gss = NoScan
    /\ tasks = [t \in TaskIds |-> NoTask]
    /\ gts = NoTaskState
    /\ trans = "inprogress"
    /\ inflight = {}
    /\ tally = [t \in TaskIds |-> NoTally]
    /\ cb_log = <<>>
    /\ touched = {}

\* the chunks PDS_create_hash, PDS_insert_hashitem and PDS_build_hashtable
\* make of TupA with the hash values 5, 6, ... are the filled Hash chunks
FilledHashAsBuilt ==
    (/\ pstate = "live"
     /\ ub = "none"
     /\ kds.format = KDS_FORMAT_HASH
     /\ kds.nslots > 0
     /\ kds.nitems > 0
     /\ log = [i \in 1..kds.nitems |-> TupA]
     /\ \A i \in 0..(kds.nitems - 1) :
           /\ KERN_DATA_STORE_TUPITEM(kds, words, mem, i).hash = 5 + i
           /\ KERN_DATA_STORE_TUPITEM(kds, words, mem, i).next # NextUnlinked)
        => /\ kds = FilledHash(kds.length, kds.nitems).kds
           /\ words = FilledHash(kds.length, kds.nitems).words
           /\ mem = FilledHash(kds.length, kds.nitems).mem

\* the chunks PDS_create_row and PDS_insert_tuple make of TupB alone are
\* the filled chunks
FilledAsInserted ==
    (/\ pstate = "live"
     /\ ub = "none"
     /\ kds.format = KDS_FORMAT_ROW
     /\ kds.nitems > 0
     /\ log = [i \in 1..kds.nitems |-> TupB])
        => /\ kds = Filled(kds.length, kds.nitems).kds
           /\ words = Filled(kds.length, kds.nitems).words
           /\ mem = Filled(kds.length, kds.nitems).mem

NextBulk ==
    \/ \E t \in Tuples : PDS_insert_tuple(t)
    \/ PDS_shrink_size
    \/ PDS_release

SpecBulk == InitBulk /\ [][NextBulk]_vars

(***************************************************************************)
(* The column metadata of Slot chunks created for every record descriptor. *)
(***************************************************************************)
NextMeta ==
    \/ \E tupdesc \in TupDescs, nrooms \in SlotRooms, use_internal \in BOOLEAN :
           PDS_create_slot(tupdesc, nrooms, 0, use_internal)
    \/ PDS_release

SpecMeta == Init /\ [][NextMeta]_vars

(***************************************************************************)
(* The store under retain and release by several holders, with one input   *)
(* for each of the other operations.                                       *)
(***************************************************************************)
NextRef ==
    \/ PDS_create_row(379)
    \/ PDS_create_hash(939)
    \/ PDS_retain
    \/ PDS_release
    \/ PDS_insert_tuple(TupA)
    \/ PDS_insert_hashitem(TupA, 5)
    \/ PDS_build_hashtable
    \/ PDS_insert_block(PageB)
    \/ PDS_expand_size(8600)
    \/ PDS_shrink_size

SpecRef == Init /\ [][NextRef]_vars

(***************************************************************************)
(* The store of each format under the inserts and the fetch.               *)
(***************************************************************************)
NextFetch ==
    \/ PDS_create_row(379)
    \/ PDS_create_hash(939)
    \/ \E nrooms \in SlotRooms, extra_length \in SlotExtras :
           PDS_create_slot(TupDesc, nrooms, extra_length, FALSE)
    \/ \E length \in BlockHints : PDS_create_block(length)
    \/ \E t \in Tuples : PDS_insert_tuple(t)
    \/ \E h \in HashInputs : PDS_insert_hashitem(h.tuple, h.hash)
    \/ \E n \in 1..Len(DevRows), used \in SlotExtras :
           DeviceStoresSlot(SubSeq(DevRows, 1, n), used)
    \/ \E row_index \in FetchIndexes : pgstrom_fetch_data_store(row_index)
    \/ \E length \in SlotExpandHints : PDS_expand_size(length)
    \/ PDS_shrink_size

SpecFetch == Init /\ [][NextFetch]_vars

(***************************************************************************)
(* The scan with its tasks: the worker that fills chunks and launches      *)
(* tasks, the callbacks of the driver, and the consumer.                   *)
(***************************************************************************)
NextPipe ==
    \/ \E cfg \in ScanConfigs : gpuscan_begin(cfg)
    \/ \E chunk_length \in ChunkHints : gpuscan_next_chunk(chunk_length)
    \/ \E t \in TaskIds, fail \in ProcessFailures :
           pgstrom_process_gpuscan(t, fail)
    \/ \E t \in TaskIds : attach_running_task(t)
    \/ \E t \in TaskIds, dev \in DeviceReports :
           pgstrom_respond_gpuscan(t, dev)
    \/ pgstrom_fetch_gputask
    \/ gpuscan_next_tuple
    \/ \E t \in TaskIds : pgstrom_release_gpuscan(t)
    \/ AbortTransaction

SpecPipe == Init /\ [][NextPipe]_vars

(***************************************************************************)
(* The chunks of the relation under chunk sizes that hold no block, one    *)
(* block, or the relation.                                                 *)
(***************************************************************************)
ScanHints == {8400, 8900, 17500}

NextScan ==
    \/ \E cfg \in ScanConfigs : gpuscan_begin(cfg)
    \/ \E chunk_length \in ScanHints : gpuscan_next_chunk(chunk_length)
    \/ \E t \in TaskIds : pgstrom_process_gpuscan(t, "none")
    \/ \E t \in TaskIds : attach_running_task(t)
    \/ AbortTransaction
    \/ \E t \in TaskIds : pgstrom_release_gpuscan(t)

SpecScan == Init /\ [][NextScan]_vars

(***************************************************************************)
(* The scans of the plans the planner makes for the queries.               *)
(***************************************************************************)
\* the query is planned with a GpuScan path, and the scan of the plan begins
ExecInitGpuScan(q) ==
    /\ gpuscan_add_scan_path(q)
    /\ gpuscan_begin(PlannedScan(create_gpuscan_plan(q)))

NextPlan ==
    \/ \E q \in Queries : ExecInitGpuScan(q)
    \/ \E chunk_length \in ChunkHints : gpuscan_next_chunk(chunk_length)
    \/ \E t \in TaskIds : pgstrom_process_gpuscan(t, "none")
    \/ \E t \in TaskIds : attach_running_task(t)
    \/ \E t \in TaskIds, dev \in DeviceReports :
           pgstrom_respond_gpuscan(t, dev)
    \/ pgstrom_fetch_gputask
    \/ gpuscan_next_tuple
    \/ \E t \in TaskIds : pgstrom_release_gpuscan(t)

SpecPlan == Init /\ [][NextPlan]_vars

(***************************************************************************)
(* The scan that is ended, started again or aborted while tasks are        *)
(* outstanding, and the backend that sleeps on its latch.  What cleans the *)
(* tasks runs to its end: the release of the tasks of an aborted           *)
(* transaction is not put off for ever; and a backend whose latch is set   *)
(* wakes.                                                                  *)
(***************************************************************************)
EndConfigs == {cfg \in ScanConfigs : cfg.pfm_enabled /\ cfg.dev_quals}

EndFailures == {"none", "alloc", "exec_quals"}

EndReports ==
    {dev \in DeviceReports :
        \/ dev.errcode \in {StromError_CpuReCheck}
        \/ dev.status # CUDA_SUCCESS
        \/ dev.written = "all"}

NextEnd ==
    \/ \E cfg \in EndConfigs : gpuscan_begin(cfg)
    \/ \E chunk_length \in ChunkHints : gpuscan_next_chunk(chunk_length)
    \/ \E t \in TaskIds, fail \in EndFailures :
           pgstrom_process_gpuscan(t, fail)
    \/ \E t \in TaskIds : attach_running_task(t)
    \/ \E t \in TaskIds, dev \in EndReports :
           pgstrom_respond_gpuscan(t, dev)
    \/ pgstrom_fetch_gputask
    \/ gpuscan_next_tuple
    \/ \E t \in TaskIds : pgstrom_release_gpuscan(t)
    \/ AbortTransaction
    \/ gpuscan_end
    \/ gpuscan_rescan
    \/ WaitLatch
    \/ ResetLatch

SpecEnd ==
    /\ Init
    /\ [][NextEnd]_vars
    /\ \A t \in TaskIds : WF_vars(pgstrom_release_gpuscan(t))
    /\ WF_vars(ResetLatch)

(***************************************************************************)
(* Properties of the store.                                                *)
(***************************************************************************)
Live == pstate = "live"

LiveRow == Live /\ kds.format = KDS_FORMAT_ROW

\* what kern_fetch_data_store gives for a record that is there
Fetched(t) == [res |-> "TRUE", tuple |-> t]

\* C1: on a Row chunk the record count is the number of inserts that
\* succeeded, fetch(i) gives the i-th record inserted, byte for byte, and an
\* insert that returned false has left no record.
InsertFetchRoundTrip ==
    /\ (LiveRow /\ last.op = "insert_tuple") => ub = "none"
    /\ (LiveRow /\ ub = "none") =>
          /\ kds.nitems = Len(log)
          /\ \A i \in 1..Len(log) :
                kern_fetch_data_store(kds, words, mem, i - 1) = Fetched(log[i])
          /\ kern_fetch_data_store(kds, words, mem, kds.nitems).res = "FALSE"

\* three records of two kinds are in, and a fourth insert was refused
InsertFetchRoundTripWitness ==
    /\ LiveRow
    /\ kds.nitems = 3
    /\ log = <<TupA, TupB, TupA>>
    /\ last = Result("insert_tuple", "FALSE", 0)

\* the front region of a chunk: head, row index and, once the hash table
\* is built, the hash slots
FrontOffset(k) ==
    KDS_CALCULATE_HEAD_LENGTH(k.ncols) + STROMALIGN(SizeofUint * k.nitems)
        + SizeofUint * k.nslots

\* C2: in every state of a chunk the bytes used are within the length, the
\* record count within the capacity, and the front region ends before the
\* payload begins.
ChunkInvariant ==
    Live =>
        /\ kds.usage <= kds.length
        /\ kds.nitems <= kds.nrooms
        /\ FrontOffset(kds) <= kds.length - kds.usage

\* the chunk of three TupA records, filled with nothing else
ThreeRecordChunk ==
    /\ LiveRow
    /\ kds.length = 376
    /\ kds.usage = RowRequired(TupA) * kds.nitems
    /\ \A i \in 1..Len(log) : log[i] = TupA

\* C3: PDS_insert_tuple on a Row chunk returns false exactly when the
\* length needed for one more record is over the chunk length or the record
\* count has reached the capacity, and then writes nothing; the chunk sized
\* for three records takes three and refuses the fourth.
InsertTupleCapacity ==
    [][\A t \in Tuples :
          (PDS_insert_tuple(t) /\ LiveRow) =>
             /\ last'.res \in {"TRUE", "FALSE"}
             /\ (last'.res = "FALSE") <=>
                   \/ LengthFor(KDS_FORMAT_ROW, kds.ncols, kds.nitems + 1,
                                kds.usage + RowRequired(t)) > kds.length
                   \/ kds.nitems >= kds.nrooms
             /\ (last'.res = "FALSE") => UNCHANGED <<kds, words, mem, log>>
             /\ (last'.res = "TRUE") => kds'.nitems = kds.nitems + 1
             /\ (ThreeRecordChunk /\ t = TupA) =>
                   last'.res = IF kds.nitems < 3 THEN "TRUE" ELSE "FALSE"
      ]_vars

\* the chunk of three records has taken three and refused the fourth
InsertTupleCapacityWitness ==
    /\ ThreeRecordChunk
    /\ kds.nitems = 3
    /\ last = Result("insert_tuple", "FALSE", 0)

\* the tuples of the lines of a page that are in use and visible
VisibleTuples(page) ==
    LET seen == SelectSeq(page.lines, LAMBDA lp : lp.normal /\ lp.visible)
    IN  [i \in 1..Len(seen) |-> seen[i].tuple]

\* C4: PDS_insert_block gives -1 and leaves the chunk as it was when the
\* worst case of the page is over the chunk length; otherwise it appends
\* the visible records of the page, and no other, and gives their number.
InsertBlockAllOrNothing ==
    [][\A page \in Pages :
          (PDS_insert_block(page) /\ LiveRow) =>
             IF BlockMaxConsume(kds, page) > kds.length
             THEN /\ last'.n = -1
                  /\ UNCHANGED <<kds, words, mem, log>>
             ELSE /\ last'.n = Len(VisibleTuples(page))
                  /\ kds'.nitems = kds.nitems + last'.n
                  /\ kds'.usage >= kds.usage
                  /\ ub' = "none"
                  /\ \A i \in 1..kds'.nitems :
                        kern_fetch_data_store(kds', words', mem', i - 1)
                            = Fetched((log \o VisibleTuples(page))[i])
      ]_vars

\* a page with an invisible record went in, and the next page was refused
InsertBlockAllOrNothingWitness ==
    /\ LiveRow
    /\ log = VisibleTuples(PageA)
    /\ kds.nitems = 2
    /\ last = Result("insert_block", "FULL", -1)

\* C5: from a count of one, K retains and K + 1 releases in any order that
\* keeps the count positive before each call free the buffer once, by the
\* last release; before that the store is alive with a count of
\* 1 + retains - releases.
RefcountBalance ==
    (ub = "none" /\ pstate # "none") =>
        /\ Live <=> nrelease <= nretain
        /\ Live => refcnt = 1 + nretain - nrelease /\ refcnt > 0 /\ nfree = 0
        /\ ~Live => nrelease = nretain + 1 /\ refcnt = 0 /\ nfree = 1

\* two retains and three releases have freed the buffer once
RefcountBalanceWitness ==
    /\ pstate = "freed"
    /\ nretain = 2
    /\ nrelease = 3
    /\ nfree = 1
    /\ last = Result("release", "OK", 0)

\* C6: no operation frees a buffer while a reference of another holder is
\* counted on it.
NoFreeWhileHeld == heldAtFree = 0

ExpandShrinkPreserves ==
    (Live /\ xs.phase = "shrunk" /\ last.op = "shrink_size") =>
        /\ ub = "none"
        /\ kds.nitems = Len(xs.recs)
        /\ Records(kds, words, mem) = xs.recs
        /\ xs.recs = log

\* a chunk of three records was expanded and then shrunk to a new length
ExpandShrinkPreservesWitness ==
    /\ Live
    /\ xs.phase = "shrunk"
    /\ last = Result("shrink_size", "OK", 0)
    /\ kds.nitems = 3
    /\ kds.length # xs.length

\* the keys of the items on the chain that starts at p, fuel of them at
\* most
RECURSIVE ChainFrom(_, _, _)
ChainFrom(m, p, fuel) ==
    IF p = 0 \/ fuel = 0 THEN <<>>
    ELSE <<p>> \o ChainFrom(m, ItemAt(m, p).next, fuel - 1)

\* the chain of bucket j
Chain(k, w, m, j) == ChainFrom(m, HashSlot(k, w, j), k.nitems + 1)

\* the places <<bucket, position>> of all chains
ChainPlaces(k, w, m) ==
    UNION { {<<j, n>> : n \in 1..Len(Chain(k, w, m, j))} : j \in 0..(k.nslots - 1) }

\* C9: after PDS_build_hashtable every record is on the chain of the
\* bucket its hash value selects, every chain ends, and every record is on
\* one chain at one place.
HashChainsComplete ==
    (Live /\ last = Result("build_hashtable", "OK", 0)) =>
        /\ kds.nslots > 0
        /\ \A j \in 0..(kds.nslots - 1) :
              LET c == Chain(kds, words, mem, j)
              IN  /\ Len(c) <= kds.nitems
                  /\ \A a, b \in 1..Len(c) : c[a] = c[b] => a = b
        /\ \A i \in 0..(kds.nitems - 1) :
              LET key == ItemKey(kds, RowIndex(kds, words, i))
                  item == ItemAt(mem, key)
                  c == Chain(kds, words, mem, item.hash % kds.nslots)
              IN  /\ key \in DOMAIN mem
                  /\ TupleOf(item) = log[i + 1]
                  /\ \E h \in HashInputs :
                        h.hash = item.hash /\ h.tuple = TupleOf(item)
                  /\ \E n \in 1..Len(c) : c[n] = key
                  /\ Cardinality({jn \in ChainPlaces(kds, words, mem) :
                        Chain(kds, words, mem, jn[1])[jn[2]] = key}) = 1

\* three records were linked, two of them on the chain of one bucket
HashChainsCompleteWitness ==
    /\ Live
    /\ last = Result("build_hashtable", "OK", 0)
    /\ kds.nitems = 3
    /\ \E j \in 0..(kds.nslots - 1) : Len(Chain(kds, words, mem, j)) = 2

FetchOutOfRangeKeeps ==
    [][\A i \in FetchIndexes :
          (pgstrom_fetch_data_store(i) /\ Live /\ i >= kds.nitems) =>
             /\ last'.res = "FALSE"
             /\ UNCHANGED <<scan_slot, storeVars, ub>>
      ]_vars

\* the slot holds the row of an earlier fetch after a fetch behind the
\* last row of a Slot chunk
FetchOutOfRangeKeepsWitness ==
    /\ Live
    /\ kds.format = KDS_FORMAT_SLOT
    /\ kds.nitems = 1
    /\ scan_slot = [kind |-> "virtual", tuple |-> DevRows[1]]
    /\ last = Result("fetch", "FALSE", 1)

\* C12: a fetch with an index below the record count succeeds with a view
\* of the record on Row and on Hash chunks, and with the decoded values
\* and null flags on Slot chunks.
FetchInRangeSucceeds ==
    [][\A i \in FetchIndexes :
          (/\ pgstrom_fetch_data_store(i)
           /\ Live
           /\ i < kds.nitems
           /\ kds.format \in {KDS_FORMAT_ROW, KDS_FORMAT_HASH, KDS_FORMAT_SLOT}) =>
             /\ last'.res = "TRUE"
             /\ scan_slot'.kind # "empty"
      ]_vars

\* C12, as the code has it: the fetch succeeds with a view of the record
\* on a Row chunk and with the decoded values and null flags on a Slot
\* chunk; on a chunk of another format it raises the error of an
\* unexpected format and leaves the slot and the chunk as they were.
FetchInRangeByFormat ==
    [][\A i \in FetchIndexes :
          (pgstrom_fetch_data_store(i) /\ Live /\ i < kds.nitems) =>
             CASE kds.format = KDS_FORMAT_ROW ->
                    /\ last'.res = "TRUE"
                    /\ scan_slot' = [kind |-> "tuple", tuple |-> log[i + 1]]
                    /\ UNCHANGED storeVars
               [] kds.format = KDS_FORMAT_SLOT ->
                    /\ last'.res = "TRUE"
                    /\ scan_slot' = [kind |-> "virtual", tuple |-> DevRows[i + 1]]
                    /\ UNCHANGED storeVars
               [] OTHER ->
                    /\ last'.res = "ERROR"
                    /\ UNCHANGED <<scan_slot, storeVars>>
      ]_vars

\* a fetch of a record of a Hash chunk has raised the error, after which
\* the slot is still empty
FetchInRangeByFormatWitness ==
    /\ Live
    /\ kds.format = KDS_FORMAT_HASH
    /\ kds.nitems = 2
    /\ scan_slot = EmptySlot
    /\ last = Result("fetch", "ERROR", 1)

\* C13: PDS_insert_tuple on a chunk that is not of the Row format, and
\* PDS_insert_hashitem on a chunk that is not of the Hash format, raise
\* the error whatever the record count and the capacity are; they never
\* return false and never change the chunk.
InsertFormatMisuse ==
    [][/\ \A t \in Tuples :
            (PDS_insert_tuple(t) /\ Live /\ kds.format # KDS_FORMAT_ROW) =>
               last'.res = "ERROR" /\ UNCHANGED storeVars
       /\ \A h \in HashInputs :
            (/\ PDS_insert_hashitem(h.tuple, h.hash)
             /\ Live
             /\ kds.format # KDS_FORMAT_HASH) =>
               last'.res = "ERROR" /\ UNCHANGED storeVars
      ]_vars

(***************************************************************************)
(* Properties of the scan and its tasks.                                   *)
(***************************************************************************)
\* the rows a scan on the host alone returns for the tuples of a chunk:
\* the tuples that pass the filter, each projected, in the order of the
\* chunk
HostRows(g, source) ==
    LET kept == SelectSeq(source, LAMBDA tup : ~g.dev_quals \/ ExecQual(tup))
    IN  [i \in 1..Len(kept) |->
           IF g.base_proj
           THEN [kind |-> "virtual", tuple |-> ExecProject(kept[i])]
           ELSE [kind |-> "tuple", tuple |-> kept[i]]]

IsPrefix(s, r) == Len(s) <= Len(r) /\ s = SubSeq(r, 1, Len(s))

\* C14: the rows gpuscan_next_tuple has returned for a task that fell back
\* to the host are the first rows of the host evaluation of the source
\* chunk (the tuples that pass the filter, projected, in source order), and
\* all of them once the task is exhausted, whatever the device has written
FallbackFidelity ==
    \A t \in TaskIds :
        tasks[t].cpu_fallback =>
            /\ IsPrefix(tally[t].emitted, HostRows(gss, tally[t].source))
            /\ last = Result("next_tuple", "NULL", t)
                   => tally[t].emitted = HostRows(gss, tally[t].source)

\* a task that fell back is exhausted: the host has dropped the second of
\* three tuples and projected the others, and the device had written one
\* row to the destination chunk
FallbackFidelityWitness ==
    \E t \in TaskIds :
        /\ tasks[t].cpu_fallback
        /\ last = Result("next_tuple", "NULL", t)
        /\ Len(tally[t].source) = 3
        /\ Len(tally[t].emitted) = 2
        /\ tally[t].emitted[2].kind = "virtual"
        /\ tasks[t].pds_dst.kds.nitems = 1

\* the callback of task t has run to its end in the last step
Queued(t) == last = Result("respond", "QUEUED", t)

\* what the device reported to the callback that ran last
Reported == cb_log[Len(cb_log)]

\* the task is left as one that falls back, as one that failed with this
\* error, or as a completed one
LeftFallback(task) ==
    task.cpu_fallback /\ task.kerror.errcode = StromError_Success

LeftFailed(task, errcode) ==
    ~task.cpu_fallback /\ task.kerror.errcode = errcode
        /\ errcode # StromError_Success

LeftCompleted(task) ==
    ~task.cpu_fallback /\ task.kerror = NoError

\* C15, as the claim states it: the callback leaves a task with a
\* recoverable error code as one that falls back (error cleared), a task
\* with any other error as failed with the status or the kernel error
\* stored as reported, and a task without an error as completed
RespondDisposition ==
    \A t \in TaskIds :
        Queued(t) =>
            IF Reported.status # CUDA_SUCCESS
            THEN /\ LeftFailed(tasks[t], Reported.status)
                 /\ tasks[t].kerror.kernel = StromKernel_CudaRuntime
            ELSE IF Recoverable(Reported.errcode)
            THEN LeftFallback(tasks[t])
            ELSE IF Reported.errcode # StromError_Success
            THEN /\ LeftFailed(tasks[t], Reported.errcode)
                 /\ tasks[t].kerror = KernelError(Reported.errcode)
            ELSE LeftCompleted(tasks[t])

\* C15, amended: a recoverable error code makes the task fall back only
\* while pgstrom_cpu_fallback_enabled is on; while it is off the code is
\* kept and the task has failed with it, as with any other kernel error.
\* A driver status other than success is stored as the error code, a task
\* without an error is completed, and no task that falls back keeps an
\* error code
RespondDispositionEnabled ==
    \A t \in TaskIds :
        /\ tasks[t].cpu_fallback
               => tasks[t].kerror.errcode = StromError_Success
        /\ Queued(t) =>
               IF Reported.status # CUDA_SUCCESS
               THEN /\ LeftFailed(tasks[t], Reported.status)
                    /\ tasks[t].kerror.kernel = StromKernel_CudaRuntime
               ELSE IF Recoverable(Reported.errcode)
                       /\ gss.cpu_fallback_enabled
               THEN LeftFallback(tasks[t])
               ELSE IF Reported.errcode # StromError_Success
               THEN /\ LeftFailed(tasks[t], Reported.errcode)
                    /\ tasks[t].kerror = KernelError(Reported.errcode)
               ELSE LeftCompleted(tasks[t])

\* the callback has left a task with a recoverable error code as one that
\* falls back
RespondDispositionEnabledWitness ==
    \E t \in TaskIds :
        /\ Queued(t)
        /\ Reported.status = CUDA_SUCCESS
        /\ Reported.errcode = StromError_DataStoreNoSpace
        /\ gss.cpu_fallback_enabled
        /\ LeftFallback(tasks[t])

\* C16: a step in which the reservation of device memory fails for a task
\* is a call of the process step that returns false: the task is not
\* failed (its error status and the transaction are as before, and it is
\* still pending, so that it can be submitted again), no command and no
\* callback is issued for it, and it holds no device memory and no event
ReservationFailureRetries ==
    [][\A t \in TaskIds :
          tally'[t].retries # tally[t].retries =>
              /\ last' = Result("process", "FALSE", t)
              /\ tasks'[t].state = "pending"
              /\ trans' = "inprogress"
              /\ tasks'[t].kerror = tasks[t].kerror
              /\ tasks'[t].cpu_fallback = tasks[t].cpu_fallback
              /\ tally'[t].cmds = <<>>
              /\ t \notin inflight'
              /\ tasks'[t].m_gpuscan = 0
              /\ tasks'[t].events = 0
              /\ tally'[t].mem_free = tally'[t].mem_alloc
              /\ tally'[t].ev_destroy = tally'[t].ev_create
              /\ gts' = gts]_vars

\* a reservation has failed for a pending task, which holds nothing
ReservationFailureRetriesWitness ==
    \E t \in TaskIds :
        /\ last = Result("process", "FALSE", t)
        /\ tally[t].retries = 1
        /\ tasks[t].state = "pending"
        /\ tasks[t].m_gpuscan = 0

\* the task is between its launch and its completion by the consumer
InDevice(task) == task.state \in {"launched", "attached"}

\* C17: the device memory reserved for a task and the events created for
\* it are released once: what was freed and what the task still holds add
\* up to what was reserved, for the memory and for the events, and a task
\* holds memory or events only between its launch and its completion, so
\* a task that failed to launch, a completed task and a released task hold
\* none
ResourcesReleasedOnce ==
    \A t \in TaskIds :
        /\ tally[t].mem_alloc =
               tally[t].mem_free + (IF tasks[t].m_gpuscan # 0 THEN 1 ELSE 0)
        /\ tally[t].ev_create = tally[t].ev_destroy + tasks[t].events
        /\ ~InDevice(tasks[t])
               => tasks[t].m_gpuscan = 0 /\ tasks[t].events = 0

\* a task that was launched with events, completed by the consumer and then
\* released: complete and release have both run on it
ResourcesReleasedOnceWitness ==
    \E t \in TaskIds :
        /\ last = Result("release", "OK", t)
        /\ trans = "inprogress"
        /\ tasks[t].state = "released"
        /\ tally[t].mem_alloc = 1
        /\ tally[t].mem_free = 1
        /\ tally[t].ev_create = NumEvents
        /\ tally[t].ev_destroy = NumEvents

Count(s, t) == Len(SelectSeq(s, LAMBDA x : x = t))

CallbackPlace(t) == CHOOSE k \in DOMAIN cb_log : cb_log[k].task = t

Succeeded(t) == tasks[t].kerror.errcode = StromError_Success

\* C19: the callback puts a task whose error code is success (a task that
\* falls back among them) behind the tasks that were queued, and a task
\* with any other error code before all of them; the tasks with success
\* stand in the completed collection in the order of their callbacks
CompletedOrdering ==
    /\ \A t \in TaskIds :
           Queued(t) =>
               gts.completed_tasks =
                   IF Succeeded(t) THEN Append(Reported.queue, t)
                   ELSE <<t>> \o Reported.queue
    /\ \A i, j \in DOMAIN gts.completed_tasks :
           (i < j /\ Succeeded(gts.completed_tasks[i])
                  /\ Succeeded(gts.completed_tasks[j]))
               => CallbackPlace(gts.completed_tasks[i])
                      < CallbackPlace(gts.completed_tasks[j])

\* a failed task is put before a queued task that falls back
CompletedOrderingWitness ==
    \E t, u \in TaskIds :
        /\ Queued(t)
        /\ ~Succeeded(t)
        /\ tasks[u].cpu_fallback
        /\ Reported.queue = <<u>>
        /\ gts.completed_tasks = <<t, u>>

\* C20: a callback that is delivered when the transaction has ended, or
\* with the status of an invalid context, returns at once: it reads and
\* writes no field of the task or the task state, and the tasks, the lock,
\* the collections, the counters and the latch are as before
RespondReturnsUntouched ==
    [][(last'.op = "respond" /\ last'.res = "RETURN") =>
           /\ touched' = {}
           /\ ub' = ub
           /\ tasks' = tasks
           /\ gts' = gts
           /\ tally' = tally
           /\ cb_log' = cb_log]_vars
\* what a task holds: device memory, event handles, references to chunks
Holds(task) ==
    \/ task.m_gpuscan # 0
    \/ task.events # 0
    \/ task.pds_src.pstate = "live"
    \/ task.pds_dst.pstate = "live"

NothingHeld == \A t \in TaskIds : ~Holds(tasks[t])

SleepsOnWork == gts.waiting /\ gts.completed_tasks # <<>>

\* C22: a callback that pushes a task onto the completed collection leaves
\* the latch of the backend set; a backend that sleeps while the completed
\* collection is not empty has its latch set, and wakes.  A run that a
\* callback ends by touching a freed task is not looked at further.
WakeOnComplete ==
    /\ [][(last'.op = "respond" /\ last'.res = "QUEUED") =>
              /\ gts'.latch
              /\ gts'.completed_tasks # gts.completed_tasks]_vars
    /\ [](SleepsOnWork => gts.latch)
    /\ [](SleepsOnWork => <>(~gts.waiting \/ ub # "none"))

\* the backend slept, a callback queued a task, and the backend has woken
\* with the task in the completed collection
WakeOnCompleteWitness ==
    /\ last.op = "wake"
    /\ gts.completed_tasks # <<>>
    /\ ~gts.waiting
    /\ ub = "none"

\* a call of the driver is made in the step: device memory is reserved or
\* freed, an event is created or destroyed, a command is put on a stream
DeviceCall ==
    \E t \in TaskIds :
        \/ tally'[t].mem_alloc # tally[t].mem_alloc
        \/ tally'[t].mem_free # tally[t].mem_free
        \/ tally'[t].ev_create # tally[t].ev_create
        \/ tally'[t].ev_destroy # tally[t].ev_destroy
        \/ tally'[t].cmds # tally[t].cmds

\* C23: the lock of the task state is free whenever a handler has returned,
\* the callback included; the latch is never signalled with the lock held;
\* a step that makes a call of the driver starts and ends with the lock
\* free and makes no change of a collection; and no collection is changed
\* without the lock.
LockAroundListsOnly ==
    /\ [](~gts.lock /\ ~gts.signal_locked /\ ~gts.unlocked)
    /\ [][DeviceCall /\ last'.op = "process" =>
              /\ ~gts.lock
              /\ gts' = gts]_vars

\* the callback has taken an attached task from the running collection,
\* pushed it and signalled the latch, and the lock is free
LockAroundListsOnlyWitness ==
    /\ last.op = "respond"
    /\ last.res = "QUEUED"
    /\ tally[last.n].removed = 1
    /\ tally[last.n].mem_alloc = 1
    /\ gts.latch
    /\ ~gts.lock

\* the tasks that are created
Created_(ts) == {t \in TaskIds : ts[t].state # "none"}

\* the bytes from address a on, n of them, lie in the allocation of task t
InAllocation(t, a, n) ==
    /\ tally[t].m_base <= a
    /\ a + n <= tally[t].m_base + tally[t].m_length

\* C24: a step of gpuscan_next_chunk that produces a chunk creates exactly
\* one task, with that chunk as its source, and a step that produces none
\* creates no task.  A task that holds device memory holds the allocation
\* that was reserved for it and is not freed; the addresses of its source
\* and destination chunks lie in that allocation, one after the other; and
\* the allocations of two tasks do not meet.
OneTaskPerChunk ==
    /\ [][last'.op = "next_chunk" =>
              IF last'.res = "TASK"
              THEN /\ Created_(tasks') = Created_(tasks) \cup {last'.n}
                   /\ last'.n \notin Created_(tasks)
                   /\ tasks'[last'.n].pds_src.pstate = "live"
                   /\ tasks'[last'.n].pds_src.kds.nitems
                          = Len(tally'[last'.n].source)
                   /\ \A u \in Created_(tasks) : tasks'[u] = tasks[u]
              ELSE tasks' = tasks]_vars
    /\ [](\A t \in TaskIds :
             tasks[t].m_gpuscan # 0 =>
                 /\ tally[t].mem_alloc = tally[t].mem_free + 1
                 /\ tasks[t].m_gpuscan = tally[t].m_base
                 /\ tasks[t].m_gpuscan < tasks[t].m_kds_src
                 /\ InAllocation(t, tasks[t].m_kds_src,
                                 tasks[t].pds_src.kds.length)
                 /\ IF tasks[t].pds_dst.pstate = "none"
                    THEN tasks[t].m_kds_dst = 0
                    ELSE /\ tasks[t].m_kds_src + tasks[t].pds_src.kds.length
                               <= tasks[t].m_kds_dst
                         /\ InAllocation(t, tasks[t].m_kds_dst,
                                         tasks[t].pds_dst.kds.length)
                 /\ \A u \in TaskIds \ {t} :
                        tasks[u].m_gpuscan # 0 =>
                            \/ tally[t].m_base + tally[t].m_length
                                   <= tally[u].m_base
                            \/ tally[u].m_base + tally[u].m_length
                                   <= tally[t].m_base)

\* two tasks hold device memory at once, each with a destination chunk
OneTaskPerChunkWitness ==
    /\ \A t \in TaskIds :
          /\ tasks[t].m_gpuscan # 0
          /\ tasks[t].m_kds_dst # 0
          /\ tasks[t].pds_src.pstate = "live"
    /\ tasks[1].m_gpuscan # tasks[2].m_gpuscan

\* len is the hint rounded down to the alignment boundary
RoundedDown(hint, len) ==
    /\ len <= hint
    /\ hint - len < MaxAlign
    /\ len % MaxAlign = 0

\* C25: a create operation that returns a store returns it with a
\* reference count of one, no records and no bytes used; the length of a
\* Row, Hash or Block chunk is the hint rounded down to the alignment
\* boundary, which is never more than the hint.
CreateInitialises ==
    [][(last'.op \in {"create_row", "create_hash", "create_slot",
                      "create_block"} /\ last'.res = "OK") =>
           /\ pstate' = "live"
           /\ refcnt' = 1
           /\ kds'.nitems = 0
           /\ kds'.usage = 0
           /\ last'.op = "create_row" =>
                  /\ kds'.format = KDS_FORMAT_ROW
                  /\ \E length \in RowHints :
                         PDS_create_row(length)
                             /\ RoundedDown(length, kds'.length)
           /\ last'.op = "create_hash" =>
                  /\ kds'.format = KDS_FORMAT_HASH
                  /\ \E length \in HashHints :
                         PDS_create_hash(length)
                             /\ RoundedDown(length, kds'.length)
           /\ last'.op = "create_block" =>
                  /\ kds'.format = KDS_FORMAT_BLOCK
                  /\ \E length \in BlockHints :
                         PDS_create_block(length)
                             /\ RoundedDown(length, kds'.length)
           /\ last'.op = "create_slot" => kds'.format = KDS_FORMAT_SLOT]_vars

\* a Block chunk made from a hint that is not on the boundary
CreateInitialisesWitness ==
    /\ last = Result("create_block", "OK", 0)
    /\ kds.length % MaxAlign = 0
    /\ \E length \in BlockHints :
          length % MaxAlign # 0 /\ RoundedDown(length, kds.length)
    /\ refcnt = 1
    /\ kds.nitems = 0

\* the commands of a task in the order they are to be on its stream
StreamOrder ==
    <<"upload_gpuscan", "upload_kds_src", "upload_kds_dst", "exec_quals",
      "dev_proj", "download_gpuscan", "download_kds_dst", "callback">>

Uploads == {"upload_gpuscan", "upload_kds_src", "upload_kds_dst"}

Downloads == {"download_gpuscan", "download_kds_dst"}

\* the places of a command on a stream
Places(cmds, c) == {i \in DOMAIN cmds : cmds[i] = c}

Rank(c) == CHOOSE i \in DOMAIN StreamOrder : StreamOrder[i] = c

\* the stream holds each command once at most, the commands in their
\* order, and the timestamps of the upload around the uploads
InStreamOrder(cmds) ==
    /\ \A i, j \in DOMAIN cmds : i < j => cmds[i] # cmds[j]
    /\ \A i, j \in DOMAIN cmds :
           (i < j /\ cmds[i] \in Range(StreamOrder)
                  /\ cmds[j] \in Range(StreamOrder))
               => Rank(cmds[i]) < Rank(cmds[j])
    /\ \A i, j \in DOMAIN cmds :
           (cmds[i] = "ev_dma_send_start" /\ cmds[j] \in Range(StreamOrder))
               => i < j
    /\ \A i, j \in DOMAIN cmds :
           cmds[i] = "ev_dma_send_stop" =>
               /\ cmds[j] \in Uploads => j < i
               /\ cmds[j] \in Range(StreamOrder) \ Uploads => i < j

\* the stream of a task whose callback is registered
WholeStream(g, task, cmds) ==
    /\ cmds[Len(cmds)] = "callback"
    /\ {"upload_gpuscan", "upload_kds_src", "download_gpuscan"}
           \subseteq Range(cmds)
    /\ task.pds_dst.pstate # "none" =>
           {"upload_kds_dst", "download_kds_dst"} \subseteq Range(cmds)
    /\ g.pfm_enabled =>
           {"ev_dma_send_start", "ev_dma_send_stop"} \subseteq Range(cmds)

\* C26: the commands of a task are on its stream in the order: upload of
\* the task metadata, of the source chunk, of the head of the destination
\* chunk, filter kernel, projection kernel, download of the result buffer,
\* of the destination chunk, registration of the callback; the timestamps
\* of the upload are before the first and after the last upload; and a
\* callback a stream delivers is the last command of a stream that holds
\* the uploads and the downloads.
StreamCommandOrder ==
    /\ [][\A t \in TaskIds :
              /\ tally'[t].cmds # tally[t].cmds =>
                     /\ tally[t].cmds = <<>>
                     /\ InStreamOrder(tally'[t].cmds)
                     /\ tally'[t].mem_alloc > 0
              /\ t \in inflight' \ inflight =>
                     /\ tally'[t].cmds # tally[t].cmds
                     /\ WholeStream(gss', tasks'[t], tally'[t].cmds)]_vars
    /\ [][last'.op = "respond" =>
              /\ last'.n \in inflight
              /\ WholeStream(gss, tasks[last'.n], tally[last'.n].cmds)]_vars

\* the callback of a task with a destination chunk and timestamps has run
StreamCommandOrderWitness ==
    /\ last.op = "respond"
    /\ last.res = "QUEUED"
    /\ Len(tally[last.n].cmds) = 12
    /\ "download_kds_dst" \in Range(tally[last.n].cmds)
    /\ "ev_dma_send_stop" \in Range(tally[last.n].cmds)

\* the commands of task t hold command c
Issued(t, c) == c \in Range(tally'[t].cmds)

\* C27: a task is created with its result buffer in the all-visible mode
\* exactly when the scan has no filter.  Of a task whose commands are all
\* on the stream, the filter kernel is launched exactly when the scan has
\* a filter, the projection kernel exactly when the task has a destination
\* chunk, and the filter kernel before the projection kernel.
KernelLaunches ==
    /\ [][(last'.op = "next_chunk" /\ last'.res = "TASK") =>
              tasks'[last'.n].kresults.all_visible = ~gss.dev_quals]_vars
    /\ [][\A t \in inflight' \ inflight :
              /\ Issued(t, "exec_quals") <=> gss.dev_quals
              /\ ~gss.dev_quals => tasks'[t].kresults.all_visible
              /\ Issued(t, "dev_proj") <=> tasks'[t].pds_dst.pstate # "none"
              /\ (Issued(t, "exec_quals") /\ Issued(t, "dev_proj")) =>
                     \A i \in Places(tally'[t].cmds, "exec_quals"),
                        j \in Places(tally'[t].cmds, "dev_proj") : i < j]_vars

\* the commands of a task of a scan without a filter are on the stream: the
\* projection kernel alone, and the result buffer in the all-visible mode
KernelLaunchesWitness ==
    \E t \in inflight :
        /\ ~gss.dev_quals
        /\ tasks[t].kresults.all_visible
        /\ "dev_proj" \in Range(tally[t].cmds)
        /\ "exec_quals" \notin Range(tally[t].cmds)

\* C28: an expand that succeeds leaves a chunk of the new length, the hint
\* rounded down, which is more than the old one; the number of records,
\* the bytes used, the columns, the format and the reference count are as
\* before; every index entry is the old one plus the new length minus the
\* old length, and the record it refers to is the record the old entry
\* referred to.
ExpandShiftsRecords ==
    [][(last'.op = "expand_size" /\ last'.res = "OK") =>
           LET shift == kds'.length - kds.length
           IN  /\ shift > 0
               /\ kds.format \in {KDS_FORMAT_ROW, KDS_FORMAT_HASH}
               /\ \E hint \in ExpandHints : RoundedDown(hint, kds'.length)
               /\ kds' = [kds EXCEPT !.length = kds'.length]
               /\ refcnt' = refcnt
               /\ pstate' = "live"
               /\ \A i \in 0..(kds.nitems - 1) :
                      /\ RowIndex(kds', words', i)
                             = RowIndex(kds, words, i) + shift
                      /\ KERN_DATA_STORE_TUPITEM(kds', words', mem', i)
                             = KERN_DATA_STORE_TUPITEM(kds, words, mem, i)
                      /\ ItemKey(kds', RowIndex(kds', words', i))
                             \in DOMAIN mem']_vars

\* a Hash chunk of two records or more has been expanded
ExpandShiftsRecordsWitness ==
    /\ last = Result("expand_size", "OK", 0)
    /\ kds.format = KDS_FORMAT_HASH
    /\ kds.nitems >= 2
    /\ ub = "none"

\* PDS_expand_size is called on a Slot chunk with bytes used in its extra
\* area
ExpandOfUsedSlot ==
    /\ pstate = "live"
    /\ kds.format = KDS_FORMAT_SLOT
    /\ kds.usage > 0
    /\ last'.op = "expand_size"

Slack(k) ==
    STROMALIGN_DOWN(k.length - LengthFor(k.format, k.ncols, k.nitems, k.usage))

\* the bytes of the index array of a chunk: one cl_uint for each record
IndexFootprint(k) == SizeofUint * k.nitems

\* PDS_shrink_size returns from a Row or Hash chunk
ShrinkReturns ==
    /\ last'.op = "shrink_size"
    /\ last'.res \in {"SKIP", "OK"}
    /\ kds.format \in {KDS_FORMAT_ROW, KDS_FORMAT_HASH}

\* the length has gone down by exactly the slack, and not below the minimum
\* required length
ShrunkBySlack ==
    /\ kds'.length = kds.length - Slack(kds)
    /\ kds'.length >= LengthFor(kds.format, kds.ncols, kds.nitems, kds.usage)
    /\ kds'.nitems = kds.nitems
    /\ kds'.usage = kds.usage

\* C30: PDS_shrink_size changes nothing of the chunk (length, index
\* entries, record positions, bucket table) whenever the slack is smaller
\* than one storage page or smaller than the bytes of the index array for
\* the records of the chunk; otherwise the length goes down by exactly the
\* slack and not below the minimum required length.
ShrinkNoOpUnderIndexFootprint ==
    [][ShrinkReturns =>
           IF Slack(kds) < BLCKSZ \/ Slack(kds) < IndexFootprint(kds)
           THEN UNCHANGED storeVars
           ELSE ShrunkBySlack]_vars

\* C30, amended: PDS_shrink_size changes nothing of the chunk whenever the
\* slack is smaller than one storage page or smaller than sizeof(Datum), 8
\* bytes, for each record of the chunk, which is twice the bytes of the
\* index array; otherwise the length goes down by exactly the slack and not
\* below the minimum required length.
ShrinkNoOpUnderDatumPerRecord ==
    [][ShrinkReturns =>
           IF Slack(kds) < BLCKSZ \/ Slack(kds) < SizeofDatum * kds.nitems
           THEN UNCHANGED storeVars
           ELSE ShrunkBySlack]_vars

\* PDS_shrink_size has left a chunk as it was whose slack is one storage
\* page or more, and more than the bytes of its index array
ShrinkNoOpUnderDatumPerRecordWitness ==
    /\ last = Result("shrink_size", "SKIP", 0)
    /\ pstate = "live"
    /\ kds.format = KDS_FORMAT_ROW
    /\ Slack(kds) >= BLCKSZ
    /\ Slack(kds) >= IndexFootprint(kds)
    /\ Slack(kds) < SizeofDatum * kds.nitems

(***************************************************************************)
(* C31.                                                                    *)
(***************************************************************************)
\* the offsets of the kern_hashitems the index entries of a chunk lead to
ItemKeys(k, w) == {ItemKey(k, RowIndex(k, w, i)) : i \in 0..(k.nitems - 1)}

\* PDS_shrink_size on a live Hash chunk whose table is built, and the chunk
\* is not left as it was
ShrinksBuiltHash ==
    /\ PDS_shrink_size
    /\ Live
    /\ kds.format = KDS_FORMAT_HASH
    /\ kds.nslots > 0
    /\ last'.res # "SKIP"

\* C31: an effective PDS_shrink_size of a Hash chunk with a built table
\* returns with the table built again for the new places: every record is
\* found at its new offset on the chain of the bucket its hash value
\* selects, no chain holds an offset of before the shrink or any offset
\* that is not the new offset of a record, and every chain ends.
ShrinkRebuildsTable ==
    [][ShrinksBuiltHash =>
           /\ last'.res = "OK"
           /\ kds'.nslots = kds.nslots
           /\ kds'.length < kds.length
           /\ \A i \in 0..(kds.nitems - 1) :
                 LET old == ItemKey(kds, RowIndex(kds, words, i))
                     key == ItemKey(kds', RowIndex(kds', words', i))
                     c == Chain(kds', words', mem',
                                ItemAt(mem, old).hash % kds.nslots)
                 IN  /\ key = old - (kds.length - kds'.length)
                     /\ key \in DOMAIN mem'
                     /\ TupleOf(mem'[key]) = TupleOf(ItemAt(mem, old))
                     /\ mem'[key].hash = ItemAt(mem, old).hash
                     /\ mem'[key].rowid = i
                     /\ Cardinality({n \in 1..Len(c) : c[n] = key}) = 1
           /\ \A j \in 0..(kds.nslots - 1) :
                 LET c == Chain(kds', words', mem', j)
                 IN  /\ Len(c) <= kds.nitems
                     /\ \A n \in 1..Len(c) :
                           /\ c[n] \in ItemKeys(kds', words')
                           /\ c[n] \notin ItemKeys(kds, words)
                           /\ mem'[c[n]].hash % kds.nslots = j]_vars

(***************************************************************************)
(* C32.                                                                    *)
(***************************************************************************)
\* the row ids of the records on the chain of bucket j, from its head on
ChainRows(k, w, m, j) ==
    LET c == Chain(k, w, m, j)
    IN  [n \in 1..Len(c) |-> ItemAt(m, c[n]).rowid]

\* the table is as PDS_build_hashtable leaves it: every record is on the
\* chain of the bucket its hash value selects
TableComplete ==
    \A i \in 0..(kds.nitems - 1) :
        LET key == ItemKey(kds, RowIndex(kds, words, i))
            c == Chain(kds, words, mem, ItemAt(mem, key).hash % kds.nslots)
        IN  \E n \in 1..Len(c) : c[n] = key

\* an effective PDS_shrink_size returns from a live Hash chunk whose table
\* PDS_build_hashtable has built for its records
ShrinksCompleteTable ==
    /\ ShrinksBuiltHash
    /\ TableComplete
    /\ last'.res = "OK"

\* C32: the table PDS_shrink_size builds again has the records of a chain
\* of two or more in another order than PDS_build_hashtable left them in.
ShrinkChangesChainOrder ==
    [][ShrinksCompleteTable =>
           \A j \in 0..(kds.nslots - 1) :
               Len(Chain(kds, words, mem, j)) >= 2 =>
                   ChainRows(kds', words', mem', j)
                       # ChainRows(kds, words, mem, j)]_vars

\* C32, amended: the table PDS_shrink_size builds again has the records of
\* every chain in the order PDS_build_hashtable left them in: both link the
\* records at the head of their bucket by rising row id, so that a chain
\* lists them by falling row id before the shrink and after it.
ShrinkKeepsChainOrder ==
    [][ShrinksCompleteTable =>
           \A j \in 0..(kds.nslots - 1) :
               LET before == ChainRows(kds, words, mem, j)
                   after == ChainRows(kds', words', mem', j)
               IN  /\ after = before
                   /\ \A a, b \in 1..Len(after) :
                          a < b => after[a] > after[b]]_vars

\* a Hash chunk of three records, two of them on the chain of one bucket,
\* was shrunk with its table built
ShrinkKeepsChainOrderWitness ==
    /\ Live
    /\ last = Result("shrink_size", "OK", 0)
    /\ kds.format = KDS_FORMAT_HASH
    /\ kds.nslots > 0
    /\ kds.nitems = 3
    /\ \E j \in 0..(kds.nslots - 1) :
          ChainRows(kds, words, mem, j) = <<1, 0>>

(***************************************************************************)
(* C33.                                                                    *)
(***************************************************************************)
\* C33: a PDS_insert_hashitem that returns true on a Hash chunk puts the
\* record at the index of the record count before the call, with that row
\* id, the hash value and the tuple of the call and the chain pointer
\* 0x7f7f7f7f, and leaves the records before it as they were; one that
\* returns false changes nothing of the chunk; and until
\* PDS_build_hashtable has run every record of a Hash chunk has its index
\* for row id and the chain pointer 0x7f7f7f7f.
InsertHashItemRecords ==
    /\ [][\A h \in HashInputs :
             (/\ PDS_insert_hashitem(h.tuple, h.hash)
              /\ Live
              /\ kds.format = KDS_FORMAT_HASH) =>
                 IF last'.res = "TRUE"
                 THEN /\ ub' = "none"
                      /\ kds'.nitems = kds.nitems + 1
                      /\ LET item == KERN_DATA_STORE_TUPITEM(kds', words', mem',
                                                             kds.nitems)
                         IN  /\ item.rowid = kds.nitems
                             /\ item.hash = h.hash
                             /\ item.next = NextUnlinked
                             /\ TupleOf(item) = h.tuple
                      /\ \A i \in 0..(kds.nitems - 1) :
                            /\ RowIndex(kds', words', i) = RowIndex(kds, words, i)
                            /\ KERN_DATA_STORE_TUPITEM(kds', words', mem', i)
                                  = KERN_DATA_STORE_TUPITEM(kds, words, mem, i)
                 ELSE /\ last'.res = "FALSE"
                      /\ UNCHANGED <<storeVars, ub, log>>]_vars
    /\ []((Live /\ kds.format = KDS_FORMAT_HASH /\ ub = "none" /\ ~built) =>
             \A i \in 0..(kds.nitems - 1) :
                 LET item == KERN_DATA_STORE_TUPITEM(kds, words, mem, i)
                 IN  /\ item.rowid = i
                     /\ item.next = NextUnlinked
                     /\ TupleOf(item) = log[i + 1])

\* three records were put into a Hash chunk whose table is not built, and
\* a fourth call has returned false
InsertHashItemRecordsWitness ==
    /\ Live
    /\ kds.format = KDS_FORMAT_HASH
    /\ ~built
    /\ kds.nitems = 3
    /\ last = Result("insert_hashitem", "FALSE", 0)

(***************************************************************************)
(* C34.                                                                    *)
(***************************************************************************)
\* the offset of column i when the columns before it lie one after the
\* other, each on its alignment boundary and of the width the metadata
\* records, from the offset base on
RECURSIVE AlignedSum(_, _, _)
AlignedSum(cm, base, i) ==
    TYPEALIGN(cm[i].attalign,
              IF i = 1 THEN base
              ELSE AlignedSum(cm, base, i - 1) + cm[i - 1].attlen)

\* the shortcuts of the metadata cm: the aligned sum for a column that is
\* of fixed width with all columns before it, absent from the first column
\* of variable width on
ShortcutsAreStatic(cm, base) ==
    \A i \in 1..Len(cm) :
        cm[i].attcacheoff =
            IF \A j \in 1..i : cm[j].attlen > 0
            THEN AlignedSum(cm, base, i)
            ELSE 0 - 1

\* C34: init_kernel_data_store gives every column the shortcut that is the
\* aligned sum of the widths of the columns before it, from the end of the
\* tuple header on, when it and every column before it are of fixed width,
\* and no shortcut from the first column of variable width on.
ColmetaShortcuts ==
    [][\A tupdesc \in TupDescs, nrooms \in SlotRooms, use_internal \in BOOLEAN :
           PDS_create_slot(tupdesc, nrooms, 0, use_internal) =>
               /\ Len(kds'.colmeta) = Len(tupdesc.attrs)
               /\ ShortcutsAreStatic(kds'.colmeta, HeaderOffset(tupdesc))]_vars

\* the same for the chunks that are not created in the internal format for
\* a record with a numeric column
ColmetaShortcutsOfPlainColumns ==
    [][\A tupdesc \in TupDescs, nrooms \in SlotRooms, use_internal \in BOOLEAN :
           (/\ PDS_create_slot(tupdesc, nrooms, 0, use_internal)
            /\ ~(use_internal /\ \E i \in 1..Len(tupdesc.attrs) :
                                     tupdesc.attrs[i].numeric)) =>
               /\ Len(kds'.colmeta) = Len(tupdesc.attrs)
               /\ \A i \in 1..Len(tupdesc.attrs) :
                      kds'.colmeta[i].attlen = tupdesc.attrs[i].attlen
               /\ ShortcutsAreStatic(kds'.colmeta, HeaderOffset(tupdesc))]_vars

(***************************************************************************)
(* C35.                                                                    *)
(***************************************************************************)
\* the results of a task that has not fallen back: the rows of its
\* destination chunk, or the offsets of its result buffer
ResultCount(task) ==
    IF task.pds_dst.pstate # "none" THEN task.pds_dst.kds.nitems
    ELSE task.kresults.nitems

\* result i of the task, from 0 on, as the scan returns it
ResultRecord(task, i) ==
    IF task.pds_dst.pstate # "none"
    THEN StoredSlot(task.pds_dst.kds,
                    kern_fetch_data_store(task.pds_dst.kds, task.pds_dst.words,
                                          task.pds_dst.mem, i))
    ELSE [kind |-> "tuple",
          tuple |-> TupleOf(ItemAt(task.pds_src.mem,
                                   task.kresults.results[i + 1]))]

\* the consumer reads a task that has not fallen back
ReadsDeviceTask ==
    /\ gts.curr_task # 0
    /\ trans = "inprogress"
    /\ ~tasks[gts.curr_task].cpu_fallback

\* C35: while the consumer reads a task that has not fallen back, the rows
\* gpuscan_next_tuple has returned are the results 0..curr_index-1 of the
\* task, each once and in rising order, and curr_index is not above the
\* number of results; a call returns result curr_index and moves the cursor
\* by one while there is one, and returns nothing and leaves the cursor
\* when there is none; the cursor of a task never moves backwards.
NextTupleInOrder ==
    /\ [](ReadsDeviceTask =>
            LET t == gts.curr_task
            IN  /\ gts.curr_index <= ResultCount(tasks[t])
                /\ Len(tally[t].emitted) = gts.curr_index
                /\ \A i \in 1..gts.curr_index :
                       tally[t].emitted[i] = ResultRecord(tasks[t], i - 1))
    /\ [][(gpuscan_next_tuple /\ ReadsDeviceTask) =>
            LET t == gts.curr_task
            IN  IF gts.curr_index < ResultCount(tasks[t])
                THEN /\ last'.res = "TUPLE"
                     /\ gts'.curr_index = gts.curr_index + 1
                     /\ scan_slot' = ResultRecord(tasks[t], gts.curr_index)
                ELSE /\ last'.res = "NULL"
                     /\ gts'.curr_index = gts.curr_index
                     /\ scan_slot' = scan_slot]_vars
    /\ [][(gts.curr_task # 0 /\ gts'.curr_task = gts.curr_task) =>
            gts'.curr_index >= gts.curr_index]_vars

\* the consumer has read the two results of a task without destination
\* chunk and is told that there is no more
NextTupleInOrderWitness ==
    /\ ReadsDeviceTask
    /\ tasks[gts.curr_task].pds_dst.pstate = "none"
    /\ tasks[gts.curr_task].kresults.nitems = 2
    /\ Len(tally[gts.curr_task].emitted) = 2
    /\ last = Result("next_tuple", "NULL", gts.curr_task)

\* the consumer has read the three rows of a destination chunk
NextTupleFromDestination ==
    /\ ReadsDeviceTask
    /\ tasks[gts.curr_task].pds_dst.pstate # "none"
    /\ Len(tally[gts.curr_task].emitted) = 3
    /\ last = Result("next_tuple", "NULL", gts.curr_task)

(***************************************************************************)
(* C36.                                                                    *)
(***************************************************************************)
\* the references to the chunk c that are held
HeldCount(c) == IF c.pstate = "live" THEN c.refcnt ELSE 0

\* the chunk references a task holds
TaskHolds(task) ==
    (IF task.pds_src.pstate = "live" THEN 1 ELSE 0)
        + (IF task.pds_dst.pstate = "live" THEN 1 ELSE 0)

\* C36: the step that releases a task takes exactly one reference from its
\* source chunk and, when it has a destination chunk, exactly one from the
\* destination chunk, both of which the task holds; a task holds its source
\* chunk and at most its destination chunk until it is released, holds
\* nothing afterwards, and is not released again.
ReleaseDropsTaskReferences ==
    /\ [][\A t \in TaskIds :
            (tasks'[t].state = "released" /\ tasks[t].state # "released") =>
                /\ tasks[t].state # "none"
                /\ HeldCount(tasks[t].pds_src) >= 1
                /\ HeldCount(tasks'[t].pds_src)
                       = HeldCount(tasks[t].pds_src) - 1
                /\ IF tasks[t].pds_dst.pstate # "none"
                   THEN /\ HeldCount(tasks[t].pds_dst) >= 1
                        /\ HeldCount(tasks'[t].pds_dst)
                               = HeldCount(tasks[t].pds_dst) - 1
                   ELSE tasks'[t].pds_dst = tasks[t].pds_dst]_vars
    /\ [][\A t \in TaskIds :
            tasks[t].state = "released" =>
                /\ tasks'[t].state = "released"
                /\ tasks'[t].pds_src = tasks[t].pds_src
                /\ tasks'[t].pds_dst = tasks[t].pds_dst]_vars
    /\ [](\A t \in TaskIds :
            /\ t \in Outstanding(tasks) =>
                   /\ tasks[t].pds_src.pstate = "live"
                   /\ tasks[t].pds_dst.pstate \in {"none", "live"}
                   /\ HeldCount(tasks[t].pds_src) = 1
                   /\ HeldCount(tasks[t].pds_dst) = TaskHolds(tasks[t]) - 1
            /\ tasks[t].state = "released" => TaskHolds(tasks[t]) = 0)

\* a task with a destination chunk is released after its rows were read
ReleaseDropsTaskReferencesWitness ==
    \E t \in TaskIds :
        /\ last = Result("release", "OK", t)
        /\ trans = "inprogress"
        /\ tasks[t].state = "released"
        /\ tasks[t].pds_src.pstate = "freed"
        /\ tasks[t].pds_dst.pstate = "freed"

(***************************************************************************)
(* C37.                                                                    *)
(***************************************************************************)
\* the tuples of the blocks from block b on that a scan reads
RECURSIVE RowsFrom(_)
RowsFrom(b) ==
    IF b > Len(Relation) THEN <<>>
    ELSE LET page == Relation[b]
             put == SelectSeq(page.lines, LAMBDA lp : LineIsPut(page, lp))
         IN  [i \in 1..Len(put) |-> put[i].tuple] \o RowsFrom(b + 1)

\* the tuples of the relation in the order of the scan, which starts at
\* the first block
RelationRows == RowsFrom(rs_startblock + 1)

\* the tuples of the chunks the scan has produced, in the order of the
\* chunks
RECURSIVE RowsPut(_)
RowsPut(t) ==
    IF t > MaxTasks THEN <<>> ELSE tally[t].source \o RowsPut(t + 1)

\* the blocks whose tuples are all in the chunks produced
BlocksAbsorbed(rows) ==
    {b \in 1..Len(Relation) : Len(rows) >= Len(RowsFrom(1)) - Len(RowsFrom(b + 1))}

\* C37: the chunks that successive calls of gpuscan_next_chunk produce hold
\* the blocks of the relation in the order of the scan, each block in one
\* chunk, none left out and none twice; a call that produces a chunk takes
\* at least one block; and the end of the input is reported only when the
\* last block is in a chunk, whatever the chunk size.
ScanAbsorbsEveryBlock ==
    /\ [](IsPrefix(RowsPut(1), RelationRows))
    /\ [][last'.op = "next_chunk" =>
            IF last'.res = "TASK"
            THEN /\ BlocksAbsorbed(RowsPut(1)) # BlocksAbsorbed(RowsPut(1)')
                 /\ Len(RowsPut(1)') = Len(RowsPut(1))
                                          + Len(tally'[last'.n].source)
                 /\ \E b \in BlocksAbsorbed(RowsPut(1)') :
                        Len(RowsPut(1)')
                            = Len(RowsFrom(1)) - Len(RowsFrom(b + 1))
            ELSE /\ RowsPut(1)' = RelationRows
                 /\ tally' = tally]_vars

\* the same for the chunk sizes that hold a block of the relation
ScanAbsorbsEveryBlockThatFits ==
    [][\A chunk_length \in ScanHints :
          (/\ gpuscan_next_chunk(chunk_length)
           /\ \A b \in 1..Len(Relation) :
                  BlockMaxConsume(init_kernel_data_store(
                                      STROMALIGN_DOWN(chunk_length),
                                      KDS_FORMAT_ROW, INT_MAX),
                                  Relation[b]) <= STROMALIGN_DOWN(chunk_length)
           /\ IsPrefix(RowsPut(1), RelationRows)) =>
              /\ IsPrefix(RowsPut(1)', RelationRows)
              /\ IF last'.res = "TASK"
                 THEN BlocksAbsorbed(RowsPut(1)) # BlocksAbsorbed(RowsPut(1)')
                 ELSE RowsPut(1)' = RelationRows /\ tally' = tally]_vars

(***************************************************************************)
(* C38.                                                                    *)
(***************************************************************************)
\* the tasks whose chain node is linked in the collection named
LinkedIn(list) == {t \in TaskIds : tasks[t].chain = list}

IdleTask(task) ==
    /\ task.state # "none"
    /\ task.kresults.all_visible
    /\ task.pds_dst.pstate = "none"

\* C39: no task of a scan that the planner has planned is created with its
\* result buffer in the all-visible mode and without destination chunk, and
\* the assertion of gpuscan_next_tuple never fails: the consumer reads the
\* source chunk only of tasks whose result buffer is not in the all-visible
\* mode.
NoIdleTask ==
    /\ [](\A t \in TaskIds : ~IdleTask(tasks[t]))
    /\ [][last'.op = "next_tuple" => last'.res # "ASSERT"]_vars

\* the same for the scans that have a filter or a device projection
NoIdleTaskOfFilterOrProjection ==
    /\ []((gss.begun /\ (gss.dev_quals \/ gss.dev_projection)) =>
             \A t \in TaskIds : ~IdleTask(tasks[t]))
    /\ [][(gss.dev_quals \/ gss.dev_projection) =>
             (last'.op = "next_tuple" => last'.res # "ASSERT")]_vars

====
